---- MODULE Spec2Model ----
(***************************************************************************)
(* A model of UniversalProcessor (src/universal_processor.py): the         *)
(* adaptive encoder of process_image, the product-mask builders, the       *)
(* bounding-box extractor and the compositor smart_resize_and_center.      *)
(*                                                                         *)
(* The specifications share the variables:                                 *)
(*   SpecEnc      the save stage of process_image (lines 443-495)          *)
(*   SpecMask     _compute_background_mask_rgb on small RGB rasters        *)
(*   SpecComp     smart_resize_and_center on small RGB / RGBA rasters      *)
(*   SpecUnmatte  _unmatte_rgba, applied twice, on small RGBA rasters      *)
(*   SpecRecolor  change_background on small RGB / RGBA rasters            *)
(*   SpecOpen     the opening of process_image on images of several modes  *)
(*   SpecBatch    process_all_images over a few files, process_image       *)
(*                stage by stage                                           *)
(*   SpecApi      the two image routes of api_server.py, one request each  *)
(*   SpecDev      the two threads of dev_server.py: DevServer.run with its *)
(*                SIGINT handler, and the observer's restarts              *)
(* Numbers that are floats in the source are kept as exact rationals       *)
(* (numerator, denominator); int() truncates toward zero and round() is    *)
(* Python's round-half-to-even.                                            *)
(***************************************************************************)
EXTENDS Integers, Sequences, FiniteSets, TLC

VARIABLES
    pc,             \* position of the modelled run
    output_format,  \* self.output_format
    quality,        \* self.quality
    min_quality,    \* self.min_quality
    target_max_kb,  \* self.target_max_kb: <<>> is None, <<k>> is k
    quality_try,    \* local quality_try of the adaptive loop
    loop_i,         \* number of iterations of `for _ in range(10)` entered
    best_bytes,     \* local best_bytes: <<>> is None, <<data>> otherwise
    encodes,        \* history: one record per call of processed_img.save
    written,        \* content of output_path: <<>> before the write
    img,            \* the input raster: [mode, w, h, px], px[<<y, x>>] = <<r, g, b, a>>
    white_threshold,        \* self.white_threshold
    black_threshold,        \* self.black_threshold
    background_edge_mode,   \* self.background_edge_mode
    background_mask,        \* what _compute_background_mask_rgb returned: <<>> before the call
    target_width,           \* self.target_width
    target_height,          \* self.target_height
    background_color,       \* self.background_color
    alpha_threshold,        \* self.alpha_threshold
    product_size_ratio,     \* self.product_size_ratio, as <<numerator, denominator>>
    min_margin_ratio,       \* self.min_margin_ratio, as <<numerator, denominator>>
    center_mode,            \* self.center_mode
    png_edge_fix,           \* self.png_edge_fix
    png_matte,              \* self.png_matte
    placed,                 \* the locals of smart_resize_and_center when it returned: <<>> before
    result,                 \* what smart_resize_and_center returned: <<>> before, else the image
    returned,               \* what process_image returned: <<>> before, else <<TRUE>> or <<FALSE>>
    unmatted,               \* the images _unmatte_rgba returned, call after call
    recolored,              \* what change_background did: <<>> before, else <<[raised, image]>>
                            \* (SpecRecolor appends what a second call on that image did)
    recolor_background,     \* self.recolor_background
    flatten_png_first,      \* self.flatten_png_first
    input_files,            \* the files under input_dir: path |-> <<image>>, or <<>> if undecodable
    image_files,            \* local image_files of process_all_images
    file_i,                 \* number of files the for loop of process_all_images has taken
    results,                \* local results of process_all_images
    outputs,                \* the files under output_dir: one [path, source] per save, in order
    endpoint,               \* the route of the request being served
    upload,                 \* the image of the request: <<>> if absent, else <<[filename, content]>>
    input_dir,              \* self.input_dir
    output_dir,             \* self.output_dir
    response,               \* what the route returned: <<>> before, else <<[status, ...]>>
    process,                \* DevServer.process: <<>> is None, <<child>> a Popen object
    live,                   \* the Flask child processes that are running
    signalled,              \* the children that were sent SIGTERM
    spawned,                \* number of children started so far
    popened,                \* per thread, what its Popen(...) returned and it has yet to store
    running,                \* DevServer.running
    observer,               \* DevServer.observer: "none", "started", "stopping" or "stopped"
    main_pc,                \* position of the main thread of dev_server.py
    watch_pc,               \* position of the observer's thread
    stop_ret,               \* per thread, where its call of stop_server returns to
    events                  \* number of file changes that passed the debounce

encVars == <<output_format, quality, min_quality, target_max_kb,
             quality_try, loop_i, best_bytes, encodes, written>>

imgVars == <<img, white_threshold, black_threshold, background_edge_mode>>

cfgVars == <<target_width, target_height, background_color, alpha_threshold,
             product_size_ratio, min_margin_ratio, center_mode, png_edge_fix, png_matte>>

stageVars == <<unmatted, recolored>>

batchVars == <<recolor_background, flatten_png_first, input_files, image_files, file_i,
               results, outputs>>

apiVars == <<endpoint, upload, input_dir, output_dir, response>>

devVars == <<process, live, signalled, spawned, popened, running, observer,
             main_pc, watch_pc, stop_ret, events>>

vars == <<pc, encVars, imgVars, background_mask, cfgVars, placed, result,
          returned, stageVars, batchVars, apiVars, devVars>>

\* The values the variables of the other specifications rest at.
EncIdle ==
    /\ output_format = "jpeg" /\ quality = 0 /\ min_quality = 0
    /\ target_max_kb = <<>> /\ quality_try = 0 /\ loop_i = 0
    /\ best_bytes = <<>> /\ encodes = <<>> /\ written = <<>>

NoImage == [mode |-> "RGB", w |-> 0, h |-> 0, px |-> <<>>]

ImgIdle ==
    /\ img = NoImage /\ white_threshold = 0 /\ black_threshold = 0
    /\ background_edge_mode = "auto"

MaskIdle == background_mask = <<>>

CompIdle ==
    /\ target_width = 0 /\ target_height = 0 /\ background_color = ""
    /\ alpha_threshold = 0 /\ product_size_ratio = <<0, 1>>
    /\ min_margin_ratio = <<0, 1>> /\ center_mode = "bbox"
    /\ png_edge_fix = FALSE /\ png_matte = ""
    /\ placed = <<>> /\ result = <<>>

StageIdle == unmatted = <<>> /\ recolored = <<>>

BatchIdle ==
    /\ recolor_background = FALSE /\ flatten_png_first = FALSE
    /\ input_files = <<>> /\ image_files = <<>> /\ file_i = 0
    /\ results = [total |-> 0, processed |-> 0, errors |-> <<>>]
    /\ outputs = <<>>

ApiIdle ==
    /\ endpoint = "" /\ upload = <<>> /\ response = <<>>
    /\ input_dir = "input_images" /\ output_dir = "processed_images"

DevIdle ==
    /\ process = <<>> /\ live = {} /\ signalled = {} /\ spawned = 0
    /\ popened = <<>> /\ running = FALSE
    /\ observer = "none" /\ main_pc = "" /\ watch_pc = "" /\ stop_ret = <<>>
    /\ events = 0

(***************************************************************************)
(* Bounds and program constants of the encoder.                            *)
(***************************************************************************)
MaxQuality == 100      \* --quality is documented as 1-100
MaxIterations == 10    \* for _ in range(10)
BytesPerKb == 1024     \* size_kb = len(data) / 1024.0
MaxTargetKb == 1       \* size targets tried: 1..MaxTargetKb (and None)

Formats == {"webp", "png", "jpeg"}

\* Lengths, in bytes, an encode may return: for every size target tried,
\* exactly the target and one byte more.
DataLengths ==
    {k * BytesPerKb : k \in 1..MaxTargetKb}
        \cup {k * BytesPerKb + 1 : k \in 1..MaxTargetKb}

NoneValue == <<>>
Some(v) == <<v>>
IsNone(o) == o = <<>>
Get(o) == o[1]

Max(a, b) == IF a >= b THEN a ELSE b
Min(a, b) == IF a <= b THEN a ELSE b

(***************************************************************************)
(* process_image, save stage.                                              *)
(***************************************************************************)

\* quality=max(1, quality_try) of the adaptive save call
EncodeQuality(q) == Max(1, q)

\* size_kb <= float(self.target_max_kb), with size_kb = len(data) / 1024.0
SizeWithinTarget(len, kb) == len <= kb * BytesPerKb

\* if size_kb <= float(self.target_max_kb) or quality_try <= self.min_quality: break
StopsAfter(len, q) == SizeWithinTarget(len, Get(target_max_kb)) \/ q <= min_quality

\* the if / elif / else that lowers quality_try after a non-final attempt
NextQualityNoFineStep(q) ==
    IF q > 85 THEN q - 7 ELSE IF q > 75 THEN q - 5 ELSE q

NextQualityCoarseOnly(q) ==
    IF q > 75 THEN q - 7 ELSE q - 3

NextQuality(q) ==
    IF q > 85 THEN q - 7 ELSE IF q > 75 THEN q - 5 ELSE q - 3

\* the branch of the format dispatch that runs the adaptive loop
UsesAdaptiveLoop == output_format = "webp" /\ ~IsNone(target_max_kb)

\* best_bytes = data, executed in every iteration
KeepFirstBytes(prev, data) == IF IsNone(prev) THEN Some(data) ELSE prev

BestBytes(prev, data) == Some(data)

\* quality= of the three single save calls (PNG takes none)
SingleSaveQualityFloor == IF output_format = "png" THEN NoneValue ELSE Some(min_quality)

SingleSaveQuality == IF output_format = "png" THEN NoneValue ELSE Some(quality)

\* The bytes one save call produces: n is the call's index, q the quality
\* handed to the codec (None for PNG), qt the value of quality_try at the call
\* (None outside the loop), len the number of bytes.
Data(n, q, qt, len) == [n |-> n, q |-> q, qt |-> qt, len |-> len]

\* What `encodes` remembers of a save call: its index, both qualities, and
\* whether its size met the target (FALSE when there is no target).
Attempt(data) ==
    [n |-> data.n, q |-> data.q, qt |-> data.qt,
     within |-> IF IsNone(target_max_kb) THEN FALSE
                ELSE SizeWithinTarget(data.len, Get(target_max_kb))]

InitEnc ==
    /\ pc = "save"
    /\ output_format \in Formats
    /\ quality \in 1..MaxQuality
    /\ min_quality \in 1..MaxQuality
    /\ target_max_kb \in {NoneValue} \cup {Some(k) : k \in 1..MaxTargetKb}
    /\ quality_try = 0
    /\ loop_i = 0
    /\ best_bytes = NoneValue
    /\ encodes = <<>>
    /\ written = NoneValue
    /\ returned = NoneValue
    /\ ImgIdle
    /\ MaskIdle
    /\ CompIdle
    /\ StageIdle
    /\ BatchIdle
    /\ ApiIdle /\ DevIdle

\* lines 445-449: entering the adaptive branch
StartAdaptive ==
    /\ pc = "save"
    /\ UsesAdaptiveLoop
    /\ quality_try' = quality
    /\ best_bytes' = NoneValue
    /\ loop_i' = 0
    /\ pc' = "loop"
    /\ UNCHANGED <<output_format, quality, min_quality, target_max_kb, encodes, written>>
    /\ UNCHANGED <<imgVars, background_mask, cfgVars, placed, result>>
    /\ UNCHANGED <<returned, stageVars, batchVars>>
    /\ UNCHANGED <<apiVars, devVars>>

\* lines 451-471: one iteration of the loop
EncodeAttempt ==
    /\ pc = "loop"
    /\ loop_i < MaxIterations
    /\ \E len \in DataLengths :
         LET data == Data(Len(encodes) + 1, Some(EncodeQuality(quality_try)),
                          Some(quality_try), len)
             stop == StopsAfter(len, quality_try)
         IN /\ encodes' = Append(encodes, Attempt(data))
            /\ best_bytes' = BestBytes(best_bytes, data)
            /\ loop_i' = loop_i + 1
            /\ quality_try' = IF stop THEN quality_try ELSE NextQuality(quality_try)
            /\ pc' = IF stop \/ loop_i + 1 = MaxIterations THEN "write" ELSE "loop"
    /\ UNCHANGED <<output_format, quality, min_quality, target_max_kb, written>>
    /\ UNCHANGED <<imgVars, background_mask, cfgVars, placed, result>>
    /\ UNCHANGED <<returned, stageVars, batchVars>>
    /\ UNCHANGED <<apiVars, devVars>>

\* lines 473-474: f.write(best_bytes), then line 495: return True
WriteBest ==
    /\ pc = "write"
    /\ written' = best_bytes
    /\ returned' = Some(TRUE)
    /\ pc' = "saved"
    /\ UNCHANGED <<output_format, quality, min_quality, target_max_kb,
                   quality_try, loop_i, best_bytes, encodes>>
    /\ UNCHANGED <<imgVars, background_mask, cfgVars, placed, result>>
    /\ UNCHANGED <<stageVars, batchVars>>
    /\ UNCHANGED <<apiVars, devVars>>

\* lines 476-494: the three save calls that write output_path directly,
\* then line 495: return True
SaveOnce ==
    /\ pc = "save"
    /\ ~UsesAdaptiveLoop
    /\ \E len \in DataLengths :
         LET data == Data(Len(encodes) + 1, SingleSaveQuality, NoneValue, len)
         IN /\ encodes' = Append(encodes, Attempt(data))
            /\ written' = Some(data)
    /\ returned' = Some(TRUE)
    /\ pc' = "saved"
    /\ UNCHANGED <<output_format, quality, min_quality, target_max_kb,
                   quality_try, loop_i, best_bytes>>
    /\ UNCHANGED <<imgVars, background_mask, cfgVars, placed, result>>
    /\ UNCHANGED <<stageVars, batchVars>>
    /\ UNCHANGED <<apiVars, devVars>>

NextEnc ==
    \/ StartAdaptive
    \/ EncodeAttempt
    \/ WriteBest
    \/ SaveOnce

SpecEnc == InitEnc /\ [][NextEnc]_vars

(***************************************************************************)
(* Claims about the adaptive encoder, checked under SpecEnc.               *)
(***************************************************************************)
Last(s) == s[Len(s)]
InLoopRun == UsesAdaptiveLoop /\ pc \in {"loop", "write", "saved"}
Finished == pc = "saved"

\* C3: the adaptive loop makes at most 10 encode attempts, and from each
\* attempt to the next both quality_try and the quality handed to the codec
\* strictly decrease.
C3_AtMostTenStrictlyDecreasing ==
    /\ Len(encodes) <= 10
    /\ InLoopRun =>
         \A i \in 1..(Len(encodes) - 1) :
            /\ Get(encodes[i + 1].qt) < Get(encodes[i].qt)
            /\ Get(encodes[i + 1].q) < Get(encodes[i].q)

\* C3 witness: a run that used all 10 attempts and was written.
C3_Witness == InLoopRun /\ Finished /\ Len(encodes) = 10

C4_Step(q) == IF q > 85 THEN 7 ELSE IF q > 75 THEN 5 ELSE 3
C4_IsStop(a) == a.within \/ Get(a.qt) <= min_quality \/ a.n = 10

\* C4: the first attempt uses the base quality; no attempt before the last
\* met the size target or was at or below min_quality, and the loop is left
\* exactly after an attempt that did (or after the 10th); the bytes written
\* are those of the last attempt; after every non-final attempt the quality
\* went down by 7 above 85, by 5 above 75, otherwise by 3.
C4_AdaptiveStateMachine ==
    InLoopRun =>
      /\ Len(encodes) >= 1 => Get(encodes[1].q) = quality
      /\ \A i \in 1..(Len(encodes) - 1) :
            /\ ~encodes[i].within
            /\ Get(encodes[i].qt) > min_quality
            /\ Get(encodes[i + 1].qt) = Get(encodes[i].qt) - C4_Step(Get(encodes[i].qt))
            /\ encodes[i + 1].q = Some(Max(1, Get(encodes[i + 1].qt)))
      /\ pc = "loop" => (encodes = <<>> \/ ~C4_IsStop(Last(encodes)))
      /\ pc \in {"write", "saved"} => (encodes # <<>> /\ C4_IsStop(Last(encodes)))
      /\ Finished =>
            /\ ~IsNone(written)
            /\ Get(written).n = Len(encodes)
            /\ Get(written).q = Last(encodes).q

\* C4 witness: a written run of at least four attempts that crossed both
\* thresholds of the schedule and stopped because the size target was met.
C4_Witness ==
    /\ InLoopRun /\ Finished /\ Len(encodes) >= 4
    /\ Get(encodes[1].q) > 85
    /\ Get(Last(encodes).q) <= 75
    /\ Last(encodes).within
    /\ Get(Last(encodes).qt) > min_quality

C5_Outcome ==
    /\ ~IsNone(written)
    /\ \/ SizeWithinTarget(Get(written).len, Get(target_max_kb))
       \/ /\ Get(written).n = Len(encodes)
          /\ \/ Get(Get(written).q) <= min_quality
             \/ Len(encodes) = 10
          /\ \A i \in 1..Len(encodes) : Get(encodes[i].q) >= Get(Get(written).q)
          /\ \A i \in 1..(Len(encodes) - 1) : Get(encodes[i + 1].q) < Get(encodes[i].q)

\* C5 as stated: for WebP and for JPEG with a size target, the output either
\* is within the target or is the last, lowest-quality result of retries that
\* went down to the quality floor or the 10-attempt cap.
C5_Original ==
    (Finished /\ output_format \in {"webp", "jpeg"} /\ ~IsNone(target_max_kb))
        => C5_Outcome

\* C5 amended: the same for WebP output only.
C5_WebpMeetsTargetOrExhausts ==
    (Finished /\ output_format = "webp" /\ ~IsNone(target_max_kb))
        => C5_Outcome

\* C5 witness: a WebP run over its target that ended at the quality floor
\* after several retries.
C5_Witness ==
    /\ Finished /\ output_format = "webp" /\ ~IsNone(target_max_kb)
    /\ ~SizeWithinTarget(Get(written).len, Get(target_max_kb))
    /\ Len(encodes) >= 3 /\ Len(encodes) < 10

\* C6: with no size target, or with PNG output, exactly one encode is made,
\* its bytes are the output, and for a lossy format it is made at the base
\* quality.
C6_SingleEncode ==
    (Finished /\ (IsNone(target_max_kb) \/ output_format = "png")) =>
        /\ Len(encodes) = 1
        /\ Get(written).n = 1
        /\ output_format # "png" =>
              (encodes[1].q = Some(quality) /\ Get(written).q = Some(quality))

\* C6 witness: a finished WebP run without a size target whose base quality
\* differs from the floor.
C6_Witness ==
    /\ Finished /\ output_format = "webp" /\ IsNone(target_max_kb)
    /\ quality # min_quality

C7_Case == InLoopRun /\ quality = 95 /\ min_quality = 60
C7_Qualities == [i \in 1..Len(encodes) |-> Get(encodes[i].q)]
C7_NeverMet == \A i \in 1..Len(encodes) : ~encodes[i].within

\* C7 as stated: base 95, floor 60, target never met: the qualities are
\* 95, 88, 81, 74, 71, 68, 65, 62 and go on until the quality is 60.
C7_Original ==
    (C7_Case /\ Finished /\ C7_NeverMet) =>
        /\ Len(encodes) >= 8
        /\ SubSeq(C7_Qualities, 1, 8) = <<95, 88, 81, 74, 71, 68, 65, 62>>
        /\ Last(C7_Qualities) = 60

\* C7 amended: base 95, floor 60, target never met: the qualities are
\* 95, 88, 81, 76, 71, 68, 65, 62, 59, the run ending with the attempt at 59.
C7_ScheduleFrom95 ==
    (C7_Case /\ Finished /\ C7_NeverMet) =>
        C7_Qualities = <<95, 88, 81, 76, 71, 68, 65, 62, 59>>

\* C7 witness: the finished run of that scenario.
C7_Witness == C7_Case /\ Finished /\ C7_NeverMet

\* C8: with base quality >= min_quality, no encode of the adaptive loop is
\* made at a quality below min_quality.
C8_NeverBelowFloor ==
    (InLoopRun /\ quality >= min_quality) =>
        \A i \in 1..Len(encodes) : Get(encodes[i].q) >= min_quality

(***************************************************************************)
(* Rasters.  A pixel position is <<y, x>> (row, column), as numpy indexes  *)
(* them; a pixel value is <<r, g, b, a>>, with a = 255 in mode RGB.        *)
(***************************************************************************)
Pixels(w, h) == (0..(h - 1)) \X (0..(w - 1))
RGBSum(c) == c[1] + c[2] + c[3]

\* The sum of r + g + b over the block of rows ys[1]..ys[2] and columns
\* xs[1]..xs[2]; the block is split in halves, rows first.
RECURSIVE SumRGB(_, _, _)
SumRGB(im, ys, xs) ==
    IF ys[1] > ys[2] \/ xs[1] > xs[2] THEN 0
    ELSE IF ys[1] < ys[2]
         THEN LET mid == (ys[1] + ys[2]) \div 2
              IN SumRGB(im, <<ys[1], mid>>, xs) + SumRGB(im, <<mid + 1, ys[2]>>, xs)
    ELSE IF xs[1] < xs[2]
         THEN LET mid == (xs[1] + xs[2]) \div 2
              IN SumRGB(im, ys, <<xs[1], mid>>) + SumRGB(im, ys, <<mid + 1, xs[2]>>)
    ELSE RGBSum(im.px[<<ys[1], xs[1]>>])

(***************************************************************************)
(* _compute_background_mask_rgb.  Rasters here have no side above max_dim, *)
(* so work_img is img and small_w, small_h are orig_w, orig_h.  The means  *)
(* are exact: mean_brightness[y, x] = RGBSum / 3, and with n pixels in each*)
(* corner block corners_mean = CornerSum / (12 n); thresholds are compared *)
(* after multiplying both sides by 12 n.                                   *)
(***************************************************************************)
MaxDimNoDownscale == 256   \* max_dim
CornerBlock == 10          \* the 10 of [0:10] and [-10:]

\* the first and last index of the slices [0:10] and [-10:] of an axis of
\* length n
HeadIdx(n) == <<0, Min(CornerBlock, n) - 1>>
TailIdx(n) == <<Max(0, n - CornerBlock), n - 1>>

\* 12 n: the denominator of corners_mean
CornerDen(im) == 12 * (HeadIdx(im.h)[2] + 1) * (HeadIdx(im.w)[2] + 1)

\* tl + tr + bl + br, each times 3 n
CornerSum(im) ==
    SumRGB(im, HeadIdx(im.h), HeadIdx(im.w))
      + SumRGB(im, HeadIdx(im.h), TailIdx(im.w))
      + SumRGB(im, TailIdx(im.h), HeadIdx(im.w))
      + SumRGB(im, TailIdx(im.h), TailIdx(im.w))

\* effective_white_threshold without the min against self.white_threshold
EffectiveWhiteThresholdUncapped(im) ==
    LET d == CornerDen(im)
        cs == CornerSum(im)
    IN IF cs > 100 * d
       THEN Max(150 * d, cs - 15 * d)
       ELSE white_threshold * d

\* effective_white_threshold, times 12 n
EffectiveWhiteThreshold(im) ==
    LET d == CornerDen(im)
        cs == CornerSum(im)
    IN IF cs > 100 * d
       THEN Min(white_threshold * d, Max(150 * d, cs - 15 * d))
       ELSE white_threshold * d

\* white_like = mean_brightness >= effective_white_threshold
WhiteLike(im) ==
    LET d == CornerDen(im)
        t == EffectiveWhiteThreshold(im)
    IN {p \in Pixels(im.w, im.h) : 4 * RGBSum(im.px[p]) * d >= 12 * t}

\* black_like = mean_brightness <= self.black_threshold
BlackLike(im) ==
    {p \in Pixels(im.w, im.h) : RGBSum(im.px[p]) <= 3 * black_threshold}

\* mask[0, :].sum() + mask[-1, :].sum() + mask[:, 0].sum() + mask[:, -1].sum()
EdgeCount(mask, w, h) ==
    Cardinality({x \in 0..(w - 1) : <<0, x>> \in mask})
      + Cardinality({x \in 0..(w - 1) : <<h - 1, x>> \in mask})
      + Cardinality({y \in 0..(h - 1) : <<y, 0>> \in mask})
      + Cardinality({y \in 0..(h - 1) : <<y, w - 1>> \in mask})

\* the choice of seed_mask by self.background_edge_mode
SeedMaskAutoInverted(im) ==
    IF background_edge_mode = "white" THEN WhiteLike(im)
    ELSE IF background_edge_mode = "black" THEN BlackLike(im)
    ELSE IF EdgeCount(WhiteLike(im), im.w, im.h) >= EdgeCount(BlackLike(im), im.w, im.h)
         THEN BlackLike(im) ELSE WhiteLike(im)

SeedMask(im) ==
    IF background_edge_mode = "white" THEN WhiteLike(im)
    ELSE IF background_edge_mode = "black" THEN BlackLike(im)
    ELSE IF EdgeCount(WhiteLike(im), im.w, im.h) >= EdgeCount(BlackLike(im), im.w, im.h)
         THEN WhiteLike(im) ELSE BlackLike(im)

\* The positions enqueue_edge_seeds looks at, in its order: for each x the
\* top then the bottom row, then for each y the left then the right column.
EdgeSeedOrder(w, h) ==
    [i \in 1..(2 * w) |->
        IF i % 2 = 1 THEN <<0, (i - 1) \div 2>> ELSE <<h - 1, (i - 2) \div 2>>]
    \o
    [i \in 1..(2 * h) |->
        IF i % 2 = 1 THEN <<(i - 1) \div 2, 0>> ELSE <<(i - 2) \div 2, w - 1>>]

\* `if mask[p] and not visited[p]: visited[p] = True; q.append(p)` on the
\* state st = [visited, q]
Visit(st, p, mask) ==
    IF p \in mask /\ p \notin st.visited
    THEN [visited |-> st.visited \cup {p}, q |-> Append(st.q, p)]
    ELSE st

\* Visit applied to cands[lo], ..., cands[hi] in that order; the range is
\* split in halves, which keeps the nesting of the evaluation logarithmic.
RECURSIVE VisitRange(_, _, _, _, _)
VisitRange(st, cands, lo, hi, mask) ==
    IF lo > hi THEN st
    ELSE IF lo = hi THEN Visit(st, cands[lo], mask)
    ELSE LET mid == (lo + hi) \div 2
             half == VisitRange(st, cands, lo, mid, mask)
         IN IF half.q = half.q
            THEN VisitRange(half, cands, mid + 1, hi, mask)
            ELSE half

VisitAll(st, cands, i, mask) == VisitRange(st, cands, i, Len(cands), mask)

EnqueueEdgeSeeds(mask, w, h) ==
    VisitAll([visited |-> {}, q |-> <<>>], EdgeSeedOrder(w, h), 1, mask)

\* the neighbours with the fourth if (x-1) of the while loop left out
NeighbourStepsWithoutLeft(p, w, h) ==
    SelectSeq(<< <<p[1] + 1, p[2]>>, <<p[1] - 1, p[2]>>, <<p[1], p[2] + 1>> >>,
              LAMBDA n : n \in Pixels(w, h))

\* The in-bounds neighbours of <<y, x>> in the order of the four ifs of the
\* while loop: y+1, y-1, x+1, x-1.
NeighbourSteps(p, w, h) ==
    SelectSeq(<< <<p[1] + 1, p[2]>>, <<p[1] - 1, p[2]>>,
                 <<p[1], p[2] + 1>>, <<p[1], p[2] - 1>> >>,
              LAMBDA n : n \in Pixels(w, h))

\* one pass of the body of `while q:`: y, x = q.popleft(), then the four ifs
PopAndVisit(st, mask, w, h) ==
    VisitAll([visited |-> st.visited, q |-> Tail(st.q)],
             NeighbourSteps(Head(st.q), w, h), 1, mask)

\* up to n passes of the while loop, stopping when q is empty; the passes
\* are split in halves, which keeps the nesting of the evaluation logarithmic
RECURSIVE WhileQ(_, _, _, _, _)
WhileQ(st, n, mask, w, h) ==
    IF n = 0 \/ st.q = <<>> THEN st
    ELSE IF n = 1 THEN PopAndVisit(st, mask, w, h)
    ELSE WhileQ(WhileQ(st, n \div 2, mask, w, h), n - n \div 2, mask, w, h)

\* while q: ...  A pixel is appended to q only when it is first marked
\* visited, so the loop makes at most w * h passes.
FloodFill(st, mask, w, h) == WhileQ(st, w * h, mask, w, h).visited

\* visited_img.resize((orig_w, orig_h), NEAREST) > 0: the output pixel takes
\* the source pixel under its centre.
ResizeNearest(mask, sw, sh, ow, oh) ==
    {p \in Pixels(ow, oh) :
        <<((2 * p[1] + 1) * sh) \div (2 * oh), ((2 * p[2] + 1) * sw) \div (2 * ow)>> \in mask}

\* A seed mask without a true pixel leaves q empty and visited all false.
ComputeBackgroundMaskRGB(im) ==
    LET seed == SeedMask(im)
        visited == IF seed = {} THEN {}
                   ELSE FloodFill(EnqueueEdgeSeeds(seed, im.w, im.h), seed, im.w, im.h)
    IN ResizeNearest(visited, im.w, im.h, im.w, im.h)

(***************************************************************************)
(* SpecMask: _compute_background_mask_rgb on RGB rasters whose border ring *)
(* has one colour and whose interior holds some pixels of a second one.    *)
(***************************************************************************)
MaxSide == 4        \* rasters are w x h with w, h in 1..MaxSide
MaxPainted == 3     \* at most this many interior pixels carry the second colour

White == <<255, 255, 255, 255>>
Cream == <<255, 255, 230, 255>>
LightGrey == <<200, 200, 200, 255>>
MidGrey == <<128, 128, 128, 255>>
Red == <<255, 0, 0, 255>>
NearBlack == <<10, 10, 10, 255>>
Black == <<0, 0, 0, 255>>

\* <<border colour, second colour>>
Scenes ==
    { <<White, Black>>, <<White, Cream>>, <<White, Red>>, <<LightGrey, Black>>,
      <<LightGrey, White>>, <<MidGrey, Black>>, <<Red, White>>,
      <<Black, White>>, <<Black, NearBlack>>, <<NearBlack, LightGrey>> }

Interior(w, h) == (1..(h - 2)) \X (1..(w - 2))

TwoColourImage(w, h, bg, fg, S) ==
    [mode |-> "RGB", w |-> w, h |-> h,
     px |-> [p \in Pixels(w, h) |-> IF p \in S THEN fg ELSE bg]]

\* Rasters whose border mixes colours: <<w, h>> and the colours of the pixels
EdgeShapes == { <<3, 1>>, <<3, 2>>, <<3, 3>> }

EdgeColours(w, h) == IF w * h <= 6 THEN {White, MidGrey, Black} ELSE {White, Black}

EdgeImages ==
    UNION { { [mode |-> "RGB", w |-> d[1], h |-> d[2], px |-> f] :
                f \in [Pixels(d[1], d[2]) -> EdgeColours(d[1], d[2])] } :
            d \in EdgeShapes }

InitMask ==
    /\ pc = "mask"
    /\ \/ \E w \in 1..MaxSide, h \in 1..MaxSide, sc \in Scenes :
            \E S \in SUBSET Interior(w, h) :
               /\ Cardinality(S) <= MaxPainted
               /\ img = TwoColourImage(w, h, sc[1], sc[2], S)
       \/ img \in EdgeImages
    /\ white_threshold \in {240, 190}
    /\ black_threshold = 15
    /\ background_edge_mode \in {"auto", "white", "black"}
    /\ background_mask = NoneValue
    /\ EncIdle
    /\ CompIdle
    /\ returned = <<>>
    /\ StageIdle
    /\ BatchIdle
    /\ ApiIdle /\ DevIdle

\* a call of _compute_background_mask_rgb(img)
ComputeBackgroundMask ==
    /\ pc = "mask"
    /\ Max(img.w, img.h) <= MaxDimNoDownscale
    /\ background_mask' = Some(ComputeBackgroundMaskRGB(img))
    /\ pc' = "masked"
    /\ UNCHANGED <<encVars, imgVars, cfgVars, placed, result>>
    /\ UNCHANGED <<returned, stageVars, batchVars>>
    /\ UNCHANGED <<apiVars, devVars>>

NextMask == ComputeBackgroundMask

SpecMask == InitMask /\ [][NextMask]_vars

(***************************************************************************)
(* Claims about _compute_background_mask_rgb, checked under SpecMask.      *)
(***************************************************************************)
Masked == pc = "masked"
C10_Border == {p \in Pixels(img.w, img.h) :
                  p[1] \in {0, img.h - 1} \/ p[2] \in {0, img.w - 1}}
C10_BorderUniform == \A p, q \in C10_Border : img.px[p] = img.px[q]
C10_BgColour == img.px[<<0, 0>>]
C10_Adjacent(p, q) ==
    \/ p[1] = q[1] /\ (p[2] = q[2] + 1 \/ q[2] = p[2] + 1)
    \/ p[2] = q[2] /\ (p[1] = q[1] + 1 \/ q[1] = p[1] + 1)

RECURSIVE C10_Grow(_, _)
C10_Grow(S, region) ==
    LET T == S \cup {p \in region : \E q \in S : C10_Adjacent(p, q)}
    IN IF T = S THEN S ELSE C10_Grow(T, region)

\* the border ring together with every pixel of the border's colour joined
\* to it by a 4-connected path of pixels of that colour
C10_BgRegion ==
    C10_Grow(C10_Border, {p \in Pixels(img.w, img.h) : img.px[p] = C10_BgColour})

C10_BgWhiteLike == <<0, 0>> \in WhiteLike(img)
C10_BgBlackLike == <<0, 0>> \in BlackLike(img)

\* the border colour is one the configured mode looks for
C10_BgDetected ==
    \/ background_edge_mode \in {"white", "auto"} /\ C10_BgWhiteLike
    \/ background_edge_mode \in {"black", "auto"} /\ C10_BgBlackLike

\* the pixels of the brightness class by which the border colour is
\* detected, given the white-like and the black-like pixels
C10_SameClass(white_like, black_like) ==
    IF background_edge_mode = "white"
         \/ (background_edge_mode = "auto" /\ <<0, 0>> \in white_like)
    THEN white_like
    ELSE black_like

C10_MaskIsRegionOf(region, class) ==
    /\ region \subseteq Get(background_mask)
    /\ Get(background_mask) \subseteq class
    /\ (\A p \in class : img.px[p] = C10_BgColour)
          => Get(background_mask) = region

C10_MaskIsRegion ==
    C10_MaskIsRegionOf(C10_BgRegion, C10_SameClass(WhiteLike(img), BlackLike(img)))

C25_Seeds == SeedMask(img) \cap C10_Border

\* visited is the 4-connected closure, inside seed_mask, of the pixels of
\* seed_mask on the border
C25_IsClosure(visited, seed_mask, border) ==
    /\ visited = C10_Grow(seed_mask \cap border, seed_mask)
    /\ visited \subseteq seed_mask
    /\ seed_mask \cap border \subseteq visited

C26_OnEdges(mask) == Cardinality(mask \cap C10_Border)

C26_SeedAsClaimed ==
    IF background_edge_mode = "white" THEN WhiteLike(img)
    ELSE IF background_edge_mode = "black" THEN BlackLike(img)
    ELSE IF C26_OnEdges(BlackLike(img)) > C26_OnEdges(WhiteLike(img))
         THEN BlackLike(img) ELSE WhiteLike(img)

\* C26: in mode auto the flood fill is seeded from whichever of the
\* white-like and black-like masks has more true pixels among the pixels on
\* the four image edges (white-like on a tie); in modes white and black from
\* the white-like and the black-like mask.
C26_SeedIsMaskWithMoreEdgePixels ==
    Masked =>
        /\ SeedMask(img) = C26_SeedAsClaimed
        /\ Get(background_mask) =
              C10_Grow(C26_SeedAsClaimed \cap C10_Border, C26_SeedAsClaimed)

\* min(white_threshold, max(150, corners_mean - 15)) or white_threshold,
\* times the denominator of corners_mean
C27_ThresholdAsClaimed ==
    IF CornerSum(img) > 100 * CornerDen(img)
    THEN Min(white_threshold * CornerDen(img),
             Max(150 * CornerDen(img), CornerSum(img) - 15 * CornerDen(img)))
    ELSE white_threshold * CornerDen(img)

C27_AtLeast(p, t, d) == 4 * RGBSum(img.px[p]) * d >= 12 * t

\* t is the threshold as claimed and d the denominator it is scaled by
C27_CappedAt(t, d) ==
    /\ t <= white_threshold * d
    /\ EffectiveWhiteThreshold(img) = t
    /\ WhiteLike(img) = {p \in Pixels(img.w, img.h) : C27_AtLeast(p, t, d)}
    /\ background_edge_mode = "white" =>
          Get(background_mask) \cap C10_Border =
             {p \in C10_Border : C27_AtLeast(p, t, d)}

\* C27: the effective white threshold never exceeds white_threshold; it is
\* min(white_threshold, max(150, corners_mean - 15)) when the mean of the
\* four corner blocks is above 100 and white_threshold otherwise; the
\* white-like mask is the pixels whose mean brightness reaches it, which in
\* mode white are the border pixels the mask marks.
C27_EffectiveThresholdCapped ==
    Masked => C27_CappedAt(C27_ThresholdAsClaimed, CornerDen(img))

\* a light grey background caught only by the lowered threshold, and a white
\* one for which the configured threshold stays in force
C27_Witness ==
    /\ Masked
    /\ background_edge_mode = "white"
    /\ white_threshold = 190
    /\ EffectiveWhiteThreshold(img) < white_threshold * CornerDen(img)
    /\ EffectiveWhiteThreshold(img) > 150 * CornerDen(img)
    /\ Get(background_mask) # {}

(***************************************************************************)
(* Floats.  A float whose exact value is num / den (den > 0) is kept as    *)
(* that pair.  Rounding error is far below the spacing of these small      *)
(* rationals, so it shows only when the exact value is an integer (int()   *)
(* may see the float just short of it) or a tie n + 1/2 (round() may see   *)
(* it on either side).  With den a power of two every operand is a float   *)
(* and every step exact, so there is no error at all.                      *)
(***************************************************************************)
IsPow2(d) == \E k \in 0..16 : d = 2 ^ k

Sign(n) == IF n > 0 THEN 1 ELSE IF n < 0 THEN -1 ELSE 0

\* int(v): truncation toward zero
Trunc(num, den) == IF num >= 0 THEN num \div den ELSE -((-num) \div den)

\* what int() returns for a float near num / den that went through an
\* inexact step
IntOfInexact(num, den) ==
    IF num % den = 0 /\ num # 0
    THEN {num \div den, (num \div den) - Sign(num)}
    ELSE {Trunc(num, den)}

\* what int() returns for a float computed as a small integer times or
\* divided by the float of a ratio with denominator den
IntOfFloat(num, den) ==
    IF IsPow2(den) THEN {Trunc(num, den)} ELSE IntOfInexact(num, den)

\* round(v) of a float that is exactly num / den: ties go to the even integer
RoundHalfEven(num, den) ==
    LET f == num \div den
        r == num - f * den
    IN IF 2 * r < den THEN f
       ELSE IF 2 * r > den THEN f + 1
       ELSE IF f % 2 = 0 THEN f ELSE f + 1

\* what round() returns for a float computed for num / den
RoundOfFloat(num, den) ==
    LET f == num \div den
        r == num - f * den
    IN IF 2 * r = den /\ ~IsPow2(den) THEN {f, f + 1} ELSE {RoundHalfEven(num, den)}

SetMin(S) == CHOOSE m \in S : \A n \in S : m <= n
SetMax(S) == CHOOSE m \in S : \A n \in S : m >= n

(***************************************************************************)
(* _hex_to_rgb and the int(hex[i:i+2], 16) of the two stages: the colours  *)
(* of the strings the model uses; any other string raises ValueError.      *)
(***************************************************************************)
HexTable == [c \in {"#F3F3F3", "#FFFFFF"} |->
                IF c = "#F3F3F3" THEN <<243, 243, 243>> ELSE <<255, 255, 255>>]
HexValid(c) == c \in DOMAIN HexTable
HexToRGB(c) == HexTable[c]

(***************************************************************************)
(* _unmatte_rgba, on channel values 0..255: a / 255 >= 0.95 is a >= 243,   *)
(* a / 255 <= 0.05 is a <= 12, a / 255 < 0.5 is a <= 127, and the distance *)
(* test sqrt(sum((c - m)^2)) / 255 < 0.35 is sum((c - m)^2) <= 7965.       *)
(***************************************************************************)
Alpha(im, p) == im.px[p][4]
OpaqueMask(im) == {p \in Pixels(im.w, im.h) : Alpha(im, p) >= 243}
TransparentMask(im) == {p \in Pixels(im.w, im.h) : Alpha(im, p) <= 12}

\* dilate_mask: `iterations` passes of the 3x3 neighbourhood
Dilate(mask, w, h, iterations) ==
    {p \in Pixels(w, h) :
        \E q \in mask : /\ q[1] - p[1] \in (-iterations)..iterations
                        /\ q[2] - p[2] \in (-iterations)..iterations}

\* potential_fringe_mask with edge_mask missing its `& (~opaque_mask)`
PotentialFringeMaskOpaqueKept(im) ==
    LET edge == Dilate(TransparentMask(im), im.w, im.h, 2) \ TransparentMask(im)
        low == {p \in Pixels(im.w, im.h) : Alpha(im, p) <= 127 /\ Alpha(im, p) >= 13}
    IN edge \cup (low \cap Dilate(OpaqueMask(im), im.w, im.h, 1))

PotentialFringeMask(im) ==
    LET edge == (Dilate(TransparentMask(im), im.w, im.h, 2) \ OpaqueMask(im))
                    \ TransparentMask(im)
        low == {p \in Pixels(im.w, im.h) : Alpha(im, p) <= 127 /\ Alpha(im, p) >= 13}
    IN edge \cup (low \cap Dilate(OpaqueMask(im), im.w, im.h, 1))

HasWhiteFringe(c, matte) ==
    (c[1] - matte[1]) * (c[1] - matte[1]) + (c[2] - matte[2]) * (c[2] - matte[2])
        + (c[3] - matte[3]) * (c[3] - matte[3]) <= 7965

\* final_unmatte_mask without `& has_white_fringe`
FinalUnmatteMaskAnyColour(im) == PotentialFringeMask(im)

FinalUnmatteMask(im) ==
    {p \in PotentialFringeMask(im) : HasWhiteFringe(im.px[p], HexToRGB(png_matte))}

\* one channel of rgb_unmatted, clipped and converted back to uint8
UnmatteChannel(c, m, a) ==
    LET x == 255 * c - m * (255 - a)
    IN IF x <= 0 THEN 0
       ELSE IF x >= 255 * a THEN 255
       ELSE (2 * x + a) \div (2 * a)

UnmatteRGBA(im) ==
    IF im.mode # "RGBA" THEN im
    ELSE LET final == FinalUnmatteMask(im)
             matte == HexToRGB(png_matte)
         IN IF final = {} THEN im
            ELSE [im EXCEPT !.px =
                    [p \in Pixels(im.w, im.h) |->
                       IF p \in final
                       THEN <<UnmatteChannel(im.px[p][1], matte[1], im.px[p][4]),
                              UnmatteChannel(im.px[p][2], matte[2], im.px[p][4]),
                              UnmatteChannel(im.px[p][3], matte[3], im.px[p][4]),
                              im.px[p][4]>>
                       ELSE im.px[p]]]

(***************************************************************************)
(* _compute_product_mask and find_product_bbox                             *)
(***************************************************************************)
Padding == 10

ProductMaskInclusive(im) ==
    IF im.mode = "RGBA"
    THEN {p \in Pixels(im.w, im.h) : Alpha(im, p) >= alpha_threshold}
    ELSE Pixels(im.w, im.h) \ ComputeBackgroundMaskRGB(im)

ProductMask(im) ==
    IF im.mode = "RGBA"
    THEN {p \in Pixels(im.w, im.h) : Alpha(im, p) > alpha_threshold}
    ELSE Pixels(im.w, im.h) \ ComputeBackgroundMaskRGB(im)

\* find_product_bbox with x2, y2 left at the last true column and row
FindProductBBoxFarEdgeUnpadded(im) ==
    LET mask == ProductMask(im)
    IN IF mask = {} THEN NoneValue
       ELSE LET rows == {p[1] : p \in mask}
                cols == {p[2] : p \in mask}
            IN Some(<<Max(0, SetMin(cols) - Padding), Max(0, SetMin(rows) - Padding),
                      Min(im.w, SetMax(cols)), Min(im.h, SetMax(rows))>>)

\* None, or the tuple (x1, y1, x2, y2)
FindProductBBox(im) ==
    LET mask == ProductMask(im)
    IN IF mask = {} THEN NoneValue
       ELSE LET rows == {p[1] : p \in mask}
                cols == {p[2] : p \in mask}
            IN Some(<<Max(0, SetMin(cols) - Padding), Max(0, SetMin(rows) - Padding),
                      Min(im.w, SetMax(cols) + Padding), Min(im.h, SetMax(rows) + Padding)>>)

\* img.crop(bbox), for a box inside the image
Crop(im, bbox) ==
    [mode |-> im.mode, w |-> bbox[3] - bbox[1], h |-> bbox[4] - bbox[2],
     px |-> [p \in Pixels(bbox[3] - bbox[1], bbox[4] - bbox[2]) |->
                im.px[<<p[1] + bbox[2], p[2] + bbox[1]>>]]]

(***************************************************************************)
(* smart_resize_and_center.  The pixel values of the canvas (LANCZOS       *)
(* resampling, Gaussian blur, paste) are not modelled: `result` is the     *)
(* mode and size of the returned image, `placed` the locals that fix them. *)
(***************************************************************************)

\* the size handed to Image.new('RGB', ...)
CanvasSizeSwapped == <<target_height, target_width>>

CanvasSize == <<target_width, target_height>>

\* max(lo, min(v, hi)) of the two clamp lines
ClampUpperOnly(v, lo, hi) == Min(v, hi)

Clamp(v, lo, hi) == Max(lo, Min(v, hi))

\* an except branch that returned the canvas built so far
ReturnsBlankCanvas(im) == [mode |-> "RGB", w |-> target_width, h |-> target_height]

\* the image returned by the except branch
Unmodified(im) == im

\* the image returned by `return result`
Canvas == [mode |-> "RGB", w |-> CanvasSize[1], h |-> CanvasSize[2]]

\* the locals when an exception sent the call to the except branch
Raised == [branch |-> "error"]

RECURSIVE SumCoord(_, _)
SumCoord(S, k) ==
    IF S = {} THEN 0
    ELSE LET p == CHOOSE q \in S : TRUE IN p[k] + SumCoord(S \ {p}, k)

\* the offsets with the centroid branch taken whatever center_mode says
PasteOffsetsCentroidAlways(mask_small, k, scale, size, canvas) ==
    IF mask_small # {}
    THEN LET n == Cardinality(mask_small)
         IN RoundOfFloat(canvas * n * scale[2] - 2 * SumCoord(mask_small, k) * scale[1],
                         2 * n * scale[2])
    ELSE {RoundHalfEven(canvas - size, 2)}

\* int(round(canvas_center - center)) along one axis (k = 2 for x, 1 for y):
\* canvas is the canvas side, size the resized side, scale = <<num, den>>
PasteOffsets(mask_small, k, scale, size, canvas) ==
    IF center_mode = "centroid" /\ mask_small # {}
    THEN LET n == Cardinality(mask_small)
         IN RoundOfFloat(canvas * n * scale[2] - 2 * SumCoord(mask_small, k) * scale[1],
                         2 * n * scale[2])
    ELSE {RoundHalfEven(canvas - size, 2)}

\* max(1, int(side * scale))
ResizedSides(side, scale) == {Max(1, v) : v \in IntOfFloat(side * scale[1], scale[2])}

\* The locals after the `if bbox:` branch, for one outcome of each of the
\* conversions before the resize: mx, my the margins, tpw, tph the target
\* product size.
PlacedProducts(im, bbox, mx, my, tpw, tph) ==
    LET pw == bbox[3] - bbox[1]
        ph == bbox[4] - bbox[2]
        cropped == IF im.mode = "RGBA" /\ png_edge_fix
                   THEN UnmatteRGBA(Crop(im, bbox)) ELSE Crop(im, bbox)
        mask_small == ProductMask(cropped)
        ax == Min(tpw, target_width - 2 * mx)
        ay == Min(tph, target_height - 2 * my)
        scale == IF ax * ph <= ay * pw THEN <<ax, pw>> ELSE <<ay, ph>>
    IN UNION { UNION {
         { [branch |-> "bbox", bbox |-> bbox,
            product_width |-> pw, product_height |-> ph,
            margin_x |-> mx, margin_y |-> my,
            new_width |-> nw, new_height |-> nh,
            paste_x |-> Clamp(px0, mx, target_width - mx - nw),
            paste_y |-> Clamp(py0, my, target_height - my - nh)] :
              px0 \in PasteOffsets(mask_small, 2, scale, nw, target_width),
              py0 \in PasteOffsets(mask_small, 1, scale, nh, target_height) } :
         nh \in ResizedSides(ph, scale) } :
         nw \in ResizedSides(pw, scale) }

\* int(self.target_height * img_ratio), img_ratio the float of w / h:
\* exact when h divides w
CoverWidths(im) ==
    IF im.w % im.h = 0 THEN {target_height * (im.w \div im.h)}
    ELSE IntOfFloat(target_height * im.w, im.h)

\* int(self.target_width / img_ratio): exact when img_ratio is
CoverHeights(im) ==
    IF im.w % im.h = 0 \/ IsPow2(im.h) THEN {Trunc(target_width * im.h, im.w)}
    ELSE IntOfInexact(target_width * im.h, im.w)

\* The locals after the else branch (cover-crop); resize raises ValueError
\* for a side below 1.
CoverCrop(new_width, new_height) ==
    IF new_width < 1 \/ new_height < 1 THEN Raised
    ELSE LET left == (new_width - target_width) \div 2
             top == (new_height - target_height) \div 2
             cropped == IF new_height = target_height
                        THEN <<(left + target_width) - left, target_height - 0>>
                        ELSE <<target_width - 0, (top + target_height) - top>>
         IN [branch |-> "cover", new_width |-> new_width, new_height |-> new_height,
             cropped_width |-> cropped[1], cropped_height |-> cropped[2],
             paste_x |-> (target_width - cropped[1]) \div 2,
             paste_y |-> (target_height - cropped[2]) \div 2]

CoverCrops(im) ==
    IF im.w * target_height > target_width * im.h
    THEN {CoverCrop(nw, target_height) : nw \in CoverWidths(im)}
    ELSE {CoverCrop(target_width, nh) : nh \in CoverHeights(im)}

\* the body of the try from line 295 on, bbox the value find_product_bbox returned
ComposedWith(im, bbox) ==
    IF IsNone(bbox) THEN CoverCrops(im)
    ELSE IF im.mode = "RGBA" /\ png_edge_fix /\ ~HexValid(png_matte)
         THEN {Raised}
    \* scale_x, scale_y divide by product_width, product_height
    ELSE IF Get(bbox)[3] = Get(bbox)[1] \/ Get(bbox)[4] = Get(bbox)[2]
         THEN {Raised}
    ELSE UNION { PlacedProducts(im, Get(bbox), c[1], c[2], c[3], c[4]) :
            c \in RoundOfFloat(target_width * min_margin_ratio[1], min_margin_ratio[2])
               \X RoundOfFloat(target_height * min_margin_ratio[1], min_margin_ratio[2])
               \X IntOfFloat(target_width * product_size_ratio[1], product_size_ratio[2])
               \X IntOfFloat(target_height * product_size_ratio[1], product_size_ratio[2]) }

\* every way the call can end: the locals at its return
SmartResizeOutcomes(im) ==
    IF ~HexValid(background_color) THEN {Raised}
    ELSE ComposedWith(im, FindProductBBox(im))

(***************************************************************************)
(* SpecComp: smart_resize_and_center on small rasters and on one-pixel     *)
(* high or wide strips long enough for an unclamped bounding box.          *)
(***************************************************************************)
MaxCompSide == 2    \* small rasters are w x h with w, h in 1..MaxCompSide
MaxProduct == 1     \* at most this many of their pixels carry the second colour
StripLen == 22      \* the long side of the strips

Clear == <<255, 255, 255, 0>>
Haze == <<250, 250, 250, 100>>

\* <<mode, first colour, second colour>>
CompScenes ==
    { <<"RGBA", Clear, Red>>, <<"RGBA", Clear, Haze>>, <<"RGB", White, Black>> }

SceneImage(sc, w, h, S) ==
    [mode |-> sc[1], w |-> w, h |-> h,
     px |-> [p \in Pixels(w, h) |-> IF p \in S THEN sc[3] ELSE sc[2]]]

CompImages ==
    { SceneImage(sc, d[1], d[2], S) :
        sc \in CompScenes,
        d \in (1..MaxCompSide) \X (1..MaxCompSide),
        S \in {T \in SUBSET Pixels(MaxCompSide, MaxCompSide) :
                  Cardinality(T) <= MaxProduct} }

\* where the two marked pixels of a strip may lie
StripEnds == {0, Padding, Padding + 1, StripLen - 1}

StripImages ==
    { SceneImage(sc, StripLen, 1, {<<0, e[1]>>, <<0, e[2]>>}) :
        sc \in CompScenes, e \in StripEnds \X StripEnds }
    \cup
    { SceneImage(sc, 1, StripLen, {<<e[1], 0>>, <<e[2], 0>>}) :
        sc \in CompScenes, e \in StripEnds \X StripEnds }

\* <<target_width, target_height>>
Targets == {<<1, 1>>, <<10, 10>>, <<30, 7>>}

InitComp ==
    /\ pc = "compose"
    /\ img \in CompImages \cup StripImages
    /\ \E t \in Targets : target_width = t[1] /\ target_height = t[2]
    /\ background_color \in {"#F3F3F3", "#GGGGGG"}
    /\ alpha_threshold \in {0, 5}
    /\ product_size_ratio \in {<<3, 4>>, <<1, 10>>}
    /\ min_margin_ratio \in {<<0, 1>>, <<5, 100>>, <<40, 100>>, <<1, 2>>}
    /\ center_mode \in {"bbox", "centroid"}
    /\ png_edge_fix = TRUE
    /\ png_matte = "#FFFFFF"
    /\ white_threshold = 240
    /\ black_threshold = 15
    /\ background_edge_mode = "auto"
    /\ placed = NoneValue
    /\ result = NoneValue
    /\ MaskIdle
    /\ EncIdle
    /\ returned = <<>>
    /\ StageIdle
    /\ BatchIdle
    /\ ApiIdle /\ DevIdle

\* a call of smart_resize_and_center(img)
SmartResizeAndCenter ==
    /\ pc = "compose"
    /\ \E out \in SmartResizeOutcomes(img) :
          /\ placed' = Some(out)
          /\ result' = Some(IF out.branch = "error" THEN Unmodified(img) ELSE Canvas)
    /\ pc' = "composed"
    /\ UNCHANGED <<encVars, imgVars, background_mask, cfgVars>>
    /\ UNCHANGED <<returned, stageVars, batchVars>>
    /\ UNCHANGED <<apiVars, devVars>>

NextComp == SmartResizeAndCenter

SpecComp == InitComp /\ [][NextComp]_vars

(***************************************************************************)
(* Claims about smart_resize_and_center, under SpecComp.                   *)
(***************************************************************************)
Composed == pc = "composed"

\* background_color and, where it is read, png_matte are hex colours
ValidColours ==
    /\ HexValid(background_color)
    /\ (img.mode = "RGBA" /\ png_edge_fix) => HexValid(png_matte)

\* C1: for every valid input image (RGB or RGBA, down to 1x1) and valid
\* configuration, smart_resize_and_center returns an RGB image of exactly
\* (target_width, target_height), in the bounding-box branch and in the
\* cover-crop fallback alike.
C1_ReturnsTargetSizedRGB ==
    (Composed /\ ValidColours) =>
        /\ Get(placed).branch \in {"bbox", "cover"}
        /\ Get(result) = [mode |-> "RGB", w |-> target_width, h |-> target_height]

C1_Witness ==
    /\ Composed /\ ValidColours
    /\ img.mode = "RGBA" /\ img.w = 1 /\ img.h = 1
    /\ Get(placed).branch = "bbox"
    /\ target_width # target_height
    /\ Get(result).w = target_width /\ Get(result).h = target_height

C2_Case == Composed /\ Get(placed).branch = "bbox"

C2_WithinX ==
    LET p == Get(placed)
    IN /\ p.paste_x >= p.margin_x
       /\ p.paste_x + p.new_width <= target_width - p.margin_x

C2_WithinY ==
    LET p == Get(placed)
    IN /\ p.paste_y >= p.margin_y
       /\ p.paste_y + p.new_height <= target_height - p.margin_y

\* C2 as stated: whenever a product bounding box is found, for either
\* centering mode and every configuration, the final paste offset keeps the
\* resized product inside the margins on all four sides.
C2_Original == C2_Case => (C2_WithinX /\ C2_WithinY)

\* C2, amended: whenever a product bounding box is found, for either
\* centering mode, the resized product lies inside the two margins of an
\* axis provided the margins leave at least one pixel of the canvas on that
\* axis (target - 2 * margin >= 1).
C2_WithinMarginsWhenRoomLeft ==
    C2_Case =>
        /\ (target_width - 2 * Get(placed).margin_x >= 1) => C2_WithinX
        /\ (target_height - 2 * Get(placed).margin_y >= 1) => C2_WithinY

\* the clamp moved an off-centre centroid placement back onto the left margin
C2_Witness ==
    /\ C2_Case
    /\ center_mode = "centroid"
    /\ Get(placed).margin_x > 0
    /\ target_width - 2 * Get(placed).margin_x >= 1
    /\ Get(placed).paste_x = Get(placed).margin_x
    /\ Get(placed).paste_x + Get(placed).new_width < target_width - Get(placed).margin_x
    /\ Get(placed).bbox[1] > 0

C28_Case == Composed /\ Get(placed).branch = "bbox" /\ center_mode = "bbox"

C28_Abs(n) == IF n >= 0 THEN n ELSE -n

\* the gaps on the two sides of an axis differ by at most 1 and the offset
\* is the rounded centred one, int(round(canvas / 2 - size / 2))
C28_Centred(paste, size, canvas) ==
    /\ C28_Abs(paste - (canvas - paste - size)) <= 1
    /\ paste = RoundHalfEven(canvas - size, 2)

C28_CentredX == C28_Centred(Get(placed).paste_x, Get(placed).new_width, target_width)

C28_CentredY == C28_Centred(Get(placed).paste_y, Get(placed).new_height, target_height)

\* C28 as stated: in bbox-center mode the resized product sits at the centre
\* of the canvas, the gaps of an axis differing by at most 1 pixel, and the
\* margin clamp does not move it from there.
C28_Original == C28_Case => (C28_CentredX /\ C28_CentredY)

\* C28, amended: the same on every axis whose two margins leave at least one
\* pixel of the canvas (target - 2 * margin >= 1).
C28_CentredWhenRoomLeft ==
    C28_Case =>
        /\ (target_width - 2 * Get(placed).margin_x >= 1) => C28_CentredX
        /\ (target_height - 2 * Get(placed).margin_y >= 1) => C28_CentredY

\* a product not centred in its box, placed with unequal gaps inside margins
C28_Witness ==
    /\ C28_Case
    /\ Get(placed).margin_x > 0
    /\ target_width - 2 * Get(placed).margin_x >= 1
    /\ (target_width - Get(placed).new_width) % 2 = 1
    /\ Get(placed).bbox[1] > 0
    /\ Get(placed).paste_x > Get(placed).margin_x

C9_Case ==
    /\ Composed /\ ValidColours
    /\ img.mode = "RGBA"
    /\ \A p \in Pixels(img.w, img.h) : Alpha(img, p) = 0

\* C9: for every RGBA input whose alpha is 0 at every pixel,
\* _compute_product_mask returns an all-false mask, find_product_bbox
\* returns None, and smart_resize_and_center takes the cover-crop fallback
\* branch, which computes no margins.
C9_TransparentTakesCoverCrop ==
    C9_Case =>
        /\ ProductMask(img) = {}
        /\ IsNone(FindProductBBox(img))
        /\ Get(placed).branch = "cover"
        /\ "margin_x" \notin DOMAIN Get(placed)

C9_Witness ==
    /\ C9_Case
    /\ alpha_threshold = 0
    /\ img.w > 1
    /\ Get(placed).branch = "cover"

(***************************************************************************)
(* Claims about find_product_bbox, under SpecComp.                         *)
(***************************************************************************)
C11_FirstCol == SetMin({p[2] : p \in ProductMask(img)})
C11_LastCol == SetMax({p[2] : p \in ProductMask(img)})
C11_FirstRow == SetMin({p[1] : p \in ProductMask(img)})
C11_LastRow == SetMax({p[1] : p \in ProductMask(img)})

\* C11: when the mask has a true pixel, find_product_bbox returns
\* (x1, y1, x2, y2) with x1 = max(0, first_col - 10),
\* x2 = min(width, last_col + 1 + 10), and likewise for y, so that the
\* half-open box reaches 10 pixels beyond the product on each side unless
\* clamped; when the mask has no true pixel it returns None.
C11_TenPixelsOnEachSide ==
    (Composed /\ ValidColours) =>
        IF ProductMask(img) = {} THEN IsNone(FindProductBBox(img))
        ELSE FindProductBBox(img) =
                Some(<<Max(0, C11_FirstCol - 10), Max(0, C11_FirstRow - 10),
                       Min(img.w, C11_LastCol + 1 + 10), Min(img.h, C11_LastRow + 1 + 10)>>)

\* C12: every box find_product_bbox returns satisfies 0 <= x1 < x2 <= width
\* and 0 <= y1 < y2 <= height and contains every true pixel of the product
\* mask; otherwise it returns None.  The compositor works on that box.
C12_BoxWithinImageHoldsProduct ==
    (Composed /\ ValidColours) =>
        LET b == FindProductBBox(img)
        IN \/ IsNone(b) /\ ProductMask(img) = {} /\ Get(placed).branch = "cover"
           \/ /\ ~IsNone(b)
              /\ 0 <= Get(b)[1] /\ Get(b)[1] < Get(b)[3] /\ Get(b)[3] <= img.w
              /\ 0 <= Get(b)[2] /\ Get(b)[2] < Get(b)[4] /\ Get(b)[4] <= img.h
              /\ \A p \in ProductMask(img) :
                    /\ Get(b)[1] <= p[2] /\ p[2] < Get(b)[3]
                    /\ Get(b)[2] <= p[1] /\ p[1] < Get(b)[4]
              /\ Get(placed).branch = "bbox"
              /\ Get(placed).bbox = Get(b)

\* a box around two product pixels, padded on the left and clamped to the
\* image on the right
C12_Witness ==
    /\ Composed /\ ValidColours
    /\ Get(placed).branch = "bbox"
    /\ Cardinality(ProductMask(img)) = 2
    /\ Get(placed).bbox[1] > 0
    /\ Get(placed).bbox[3] = img.w

(***************************************************************************)
(* SpecUnmatte: _unmatte_rgba called on an image and again on what it      *)
(* returned.  The rasters are rows, columns and 2 x 2 squares over a       *)
(* palette of alpha and colour classes.                                    *)
(***************************************************************************)
MaxUnmatteLen == 4    \* rows and columns have 1..MaxUnmatteLen pixels

NearOpaque == <<240, 240, 240, 243>>    \* alpha 243 / 255 >= 0.95
Veil == <<250, 250, 250, 200>>          \* alpha between 0.5 and 0.95
Tint == <<200, 50, 50, 100>>            \* low alpha, far from a white matte

UnmattePalette == {Clear, Red, Haze, Tint, NearOpaque, Veil}

UnmatteShapes ==
    {<<n, 1>> : n \in 1..MaxUnmatteLen} \cup {<<1, n>> : n \in 1..MaxUnmatteLen}
        \cup {<<2, 2>>}

UnmatteImages ==
    UNION { { [mode |-> "RGBA", w |-> d[1], h |-> d[2], px |-> f] :
                f \in [Pixels(d[1], d[2]) -> UnmattePalette] } : d \in UnmatteShapes }
    \cup { SceneImage(<<"RGB", White, Black>>, 2, 1, {<<0, 0>>}) }

InitUnmatte ==
    /\ pc = "unmatte"
    /\ img \in UnmatteImages
    /\ png_matte = "#FFFFFF"
    /\ png_edge_fix = TRUE
    /\ unmatted = <<>>
    /\ recolored = <<>>
    /\ white_threshold = 0 /\ black_threshold = 0 /\ background_edge_mode = "auto"
    /\ target_width = 0 /\ target_height = 0 /\ background_color = ""
    /\ alpha_threshold = 0 /\ product_size_ratio = <<0, 1>>
    /\ min_margin_ratio = <<0, 1>> /\ center_mode = "bbox"
    /\ placed = <<>> /\ result = <<>>
    /\ returned = <<>>
    /\ MaskIdle
    /\ EncIdle
    /\ BatchIdle
    /\ ApiIdle /\ DevIdle

\* a call of _unmatte_rgba: on img first, then on the image the first call
\* returned
Unmatte ==
    /\ pc = "unmatte"
    /\ unmatted' = Append(unmatted,
                          UnmatteRGBA(IF unmatted = <<>> THEN img ELSE unmatted[Len(unmatted)]))
    /\ pc' = IF unmatted = <<>> THEN "unmatte" ELSE "unmatted"
    /\ UNCHANGED <<encVars, imgVars, background_mask, cfgVars, placed, result>>
    /\ UNCHANGED <<returned, recolored, batchVars>>
    /\ UNCHANGED <<apiVars, devVars>>

NextUnmatte == Unmatte

SpecUnmatte == InitUnmatte /\ [][NextUnmatte]_vars

(***************************************************************************)
(* Claims about _unmatte_rgba, under SpecUnmatte.  Alpha and distance      *)
(* thresholds are stated on the 0..255 values: a / 255 >= 0.95 is          *)
(* 100 a >= 95 * 255, and a distance below 0.35 is 400 d2 < 49 * 255 * 255 *)
(* for the squared distance d2.                                            *)
(***************************************************************************)
C13_Opaque(im) == {p \in Pixels(im.w, im.h) : 100 * im.px[p][4] >= 95 * 255}

\* C13: _unmatte_rgba never changes an opaque pixel (alpha >= 0.95), so on
\* opaque pixels applying it twice gives the values of applying it once
\* and of the input.
C13_OpaqueUntouched ==
    \A i \in 1..Len(unmatted) :
        /\ unmatted[i].w = img.w /\ unmatted[i].h = img.h
        /\ \A p \in C13_Opaque(img) : unmatted[i].px[p] = img.px[p]

\* both calls made, the first changed some pixel, and an opaque pixel
\* touches a transparent one
C13_Witness ==
    /\ Len(unmatted) = 2
    /\ \E q \in Pixels(img.w, img.h) : unmatted[1].px[q] # img.px[q]
    /\ \E p \in C13_Opaque(img) : \E q \in Pixels(img.w, img.h) :
          /\ img.px[q][4] = 0
          /\ q[1] - p[1] \in -1..1 /\ q[2] - p[2] \in -1..1

C14_Near(p, q, k) == q[1] - p[1] \in (-k)..k /\ q[2] - p[2] \in (-k)..k

\* the candidate region as the claim words it
C14_Candidate(im, p) ==
    LET a == im.px[p][4]
    IN \/ /\ \E q \in Pixels(im.w, im.h) : 20 * im.px[q][4] <= 255 /\ C14_Near(p, q, 2)
          /\ ~(100 * a >= 95 * 255)
          /\ ~(20 * a <= 255)
       \/ /\ 20 * a > 255 /\ 2 * a < 255
          /\ \E q \in Pixels(im.w, im.h) :
                q # p /\ 100 * im.px[q][4] >= 95 * 255 /\ C14_Near(p, q, 1)

C14_NearMatte(c) ==
    LET m == HexToRGB(png_matte)
        d2 == (c[1] - m[1]) * (c[1] - m[1]) + (c[2] - m[2]) * (c[2] - m[2])
                + (c[3] - m[3]) * (c[3] - m[3])
    IN 400 * d2 < 49 * 255 * 255

\* C14: _unmatte_rgba changes the RGB of a pixel only if the pixel is in the
\* candidate region and its RGB distance to the matte colour is below 0.35;
\* every other pixel's RGB, and every pixel's alpha, are unchanged.
C14_OnlyNearMatteCandidatesChange ==
    Len(unmatted) >= 1 =>
        /\ unmatted[1].mode = img.mode /\ unmatted[1].w = img.w /\ unmatted[1].h = img.h
        /\ \A p \in Pixels(img.w, img.h) :
              /\ unmatted[1].px[p][4] = img.px[p][4]
              /\ unmatted[1].px[p] # img.px[p] =>
                    C14_Candidate(img, p) /\ C14_NearMatte(img.px[p])

\* one candidate pixel near the matte was changed, another candidate far
\* from the matte was left alone
C14_Witness ==
    /\ Len(unmatted) >= 1
    /\ \E p \in Pixels(img.w, img.h) : unmatted[1].px[p] # img.px[p]
    /\ \E p \in Pixels(img.w, img.h) :
          C14_Candidate(img, p) /\ ~C14_NearMatte(img.px[p])

(***************************************************************************)
(* change_background.  np.array(img) has 3 channels per pixel in mode RGB  *)
(* and 4 in mode RGBA.                                                     *)
(***************************************************************************)
Channels(im, p) ==
    IF im.mode = "RGBA" THEN {im.px[p][k] : k \in 1..4} ELSE {im.px[p][k] : k \in 1..3}

\* bg_mask with np.any in place of np.all
BgMaskAnyChannel(im) ==
    {p \in Pixels(im.w, im.h) :
        \/ \E c \in Channels(im, p) : c >= white_threshold
        \/ \E c \in Channels(im, p) : c <= black_threshold}

\* bg_mask = white_mask | black_mask
BgMask(im) ==
    {p \in Pixels(im.w, im.h) :
        \/ \A c \in Channels(im, p) : c >= white_threshold
        \/ \A c \in Channels(im, p) : c <= black_threshold}

\* the selected rows mixed half and half with the colour, not assigned it
RepaintedBlended(im, mask, colour) ==
    [im EXCEPT !.px = [p \in Pixels(im.w, im.h) |->
                          IF p \in mask
                          THEN <<(im.px[p][1] + colour[1]) \div 2,
                                 (im.px[p][2] + colour[2]) \div 2,
                                 (im.px[p][3] + colour[3]) \div 2, im.px[p][4]>>
                          ELSE im.px[p]]]

\* img_array[bg_mask] = new_bg_color on a 3-channel array
Repainted(im, mask, colour) ==
    [im EXCEPT !.px = [p \in Pixels(im.w, im.h) |->
                          IF p \in mask
                          THEN <<colour[1], colour[2], colour[3], im.px[p][4]>>
                          ELSE im.px[p]]]

\* Every way a call can end, as [raised, image]: raised tells whether the
\* except branch returned img.  Assigning the 3-tuple to selected rows of a
\* 4-channel array raises ValueError; when no row is selected the
\* assignment may raise or do nothing, and the image is the same either way.
ChangeBackgroundOutcomes(im) ==
    IF ~HexValid(background_color) THEN {[raised |-> TRUE, image |-> im]}
    ELSE IF im.mode = "RGBA"
         THEN IF BgMask(im) # {} THEN {[raised |-> TRUE, image |-> im]}
              ELSE {[raised |-> r, image |-> im] : r \in BOOLEAN}
    ELSE {[raised |-> FALSE,
           image |-> Repainted(im, BgMask(im), HexToRGB(background_color))]}

(***************************************************************************)
(* SpecRecolor: change_background on rows and columns of a few pixels, and *)
(* once more on the image the first call returned.                         *)
(***************************************************************************)
MaxRecolorLen == 2    \* rows and columns have 1..MaxRecolorLen pixels

Navy == <<10, 10, 200, 255>>
ClearBlack == <<0, 0, 0, 0>>

RecolorPalette(mode) ==
    IF mode = "RGB" THEN {White, Cream, LightGrey, Red, Navy, NearBlack, Black}
    ELSE {White, Clear, Haze, Black, ClearBlack}

RecolorShapes ==
    {<<n, 1>> : n \in 1..MaxRecolorLen} \cup {<<1, n>> : n \in 1..MaxRecolorLen}

RecolorImages ==
    UNION { UNION { { [mode |-> mode, w |-> d[1], h |-> d[2], px |-> f] :
                        f \in [Pixels(d[1], d[2]) -> RecolorPalette(mode)] } :
                    d \in RecolorShapes } : mode \in {"RGB", "RGBA"} }

InitRecolor ==
    /\ pc = "recolor"
    /\ img \in RecolorImages
    /\ white_threshold \in {250, 240, 200}
    /\ black_threshold = 15
    /\ background_color \in {"#F3F3F3", "#GGGGGG"}
    /\ background_edge_mode = "auto"
    /\ target_width = 0 /\ target_height = 0
    /\ alpha_threshold = 0 /\ product_size_ratio = <<0, 1>>
    /\ min_margin_ratio = <<0, 1>> /\ center_mode = "bbox"
    /\ png_edge_fix = FALSE /\ png_matte = ""
    /\ placed = <<>> /\ result = <<>>
    /\ returned = <<>>
    /\ unmatted = <<>>
    /\ recolored = <<>>
    /\ MaskIdle
    /\ EncIdle
    /\ BatchIdle
    /\ ApiIdle /\ DevIdle

\* a call of change_background(img)
ChangeBackground ==
    /\ pc = "recolor"
    /\ \E out \in ChangeBackgroundOutcomes(img) : recolored' = Some(out)
    /\ pc' = "recolored"
    /\ UNCHANGED <<encVars, imgVars, background_mask, cfgVars, placed, result>>
    /\ UNCHANGED <<returned, unmatted, batchVars>>
    /\ UNCHANGED <<apiVars, devVars>>

\* change_background(change_background(img)): the second call
ChangeBackgroundAgain ==
    /\ pc = "recolored"
    /\ \E out \in ChangeBackgroundOutcomes(Get(recolored).image) :
          recolored' = Append(recolored, out)
    /\ pc' = "recolored_again"
    /\ UNCHANGED <<encVars, imgVars, background_mask, cfgVars, placed, result>>
    /\ UNCHANGED <<returned, unmatted, batchVars>>
    /\ UNCHANGED <<apiVars, devVars>>

NextRecolor == ChangeBackground \/ ChangeBackgroundAgain

SpecRecolor == InitRecolor /\ [][NextRecolor]_vars

C15_AllChannels(p, Test(_)) ==
    /\ Test(img.px[p][1]) /\ Test(img.px[p][2]) /\ Test(img.px[p][3])
    /\ img.mode = "RGBA" => Test(img.px[p][4])

C15_IsBackground(p) ==
    \/ C15_AllChannels(p, LAMBDA c : c >= white_threshold)
    \/ C15_AllChannels(p, LAMBDA c : c <= black_threshold)

C15_RGB(c) == <<c[1], c[2], c[3]>>

\* C15: change_background, when it returns normally, replaces a pixel by
\* the configured background colour if and only if all its channels are
\* >= white_threshold or all its channels are <= black_threshold; every
\* other pixel is passed through unchanged, whatever its neighbours are.
C15_ReplacesExactlyBackgroundPixels ==
    (pc = "recolored" /\ ~Get(recolored).raised) =>
        LET out == Get(recolored).image
        IN /\ out.mode = img.mode /\ out.w = img.w /\ out.h = img.h
           /\ \A p \in Pixels(img.w, img.h) :
                 IF C15_IsBackground(p)
                 THEN C15_RGB(out.px[p]) = HexToRGB(background_color)
                 ELSE out.px[p] = img.px[p]

\* of two pixels side by side one was replaced and the other, with some but
\* not all channels past the white threshold, was kept
C15_Witness ==
    /\ pc = "recolored" /\ ~Get(recolored).raised
    /\ img.w = 2
    /\ C15_IsBackground(<<0, 0>>)
    /\ Get(recolored).image.px[<<0, 0>>] # img.px[<<0, 0>>]
    /\ img.px[<<0, 1>>] = Cream
    /\ Get(recolored).image.px[<<0, 1>>] = Cream

\* C29: change_background is idempotent: the image returned by a second
\* call, made on the image the first call returned, is that same image, for
\* every image, thresholds and background colour, whether or not a call
\* ended in its except branch.
C29_Idempotent ==
    pc = "recolored_again" => recolored[2].image = recolored[1].image

\* the first call repainted a pixel with a colour that is itself past the
\* white threshold, so the second call selected and repainted it again
C29_Witness ==
    /\ pc = "recolored_again"
    /\ ~recolored[1].raised /\ ~recolored[2].raised
    /\ recolored[1].image # img
    /\ \E p \in BgMask(recolored[1].image) : recolored[1].image.px[p] # img.px[p]

(***************************************************************************)
(* process_all_images and process_image.  A path under input_dir is        *)
(* <<directory, stem, suffix>>.  The save stage is one step here: with no  *)
(* size target each format saves once (SpecEnc has the adaptive loop), and *)
(* what it writes is recorded as [path, source].  Failures of the file     *)
(* system (mkdir, open for writing) are not modelled.                      *)
(***************************************************************************)
ImageExtensions == {".jpg", ".jpeg", ".png", ".bmp", ".tiff", ".webp"}

\* the paths the model draws from, in the order sorted() gives them
PathOrder ==
    << <<"", "a", ".jpg">>, <<"", "a", ".png">>, <<"", "notes", ".txt">>,
       <<"sub", "a", ".jpg">>, <<"sub", "a", ".png">> >>

RECURSIVE Range(_)
Range(q) == IF q = <<>> THEN {} ELSE {Head(q)} \cup Range(Tail(q))

\* get_image_files: the files with an image suffix, sorted
GetImageFilesOf(files) ==
    SelectSeq(PathOrder, LAMBDA f : f \in DOMAIN files /\ f[3] \in ImageExtensions)

FormatSuffix == IF output_format = "webp" THEN ".webp"
                ELSE IF output_format = "png" THEN ".png" ELSE ".jpg"

\* lines 411-422: output_dir / relative_path, with_suffix by output format
OutputPath(f) == <<f[1], f[2], FormatSuffix>>

\* Image.alpha_composite(white_bg, rgba).convert('RGB'), for rasters whose
\* alpha is 0 or 255 at every pixel
FlattenOnWhite(im) ==
    [mode |-> "RGB", w |-> im.w, h |-> im.h,
     px |-> [p \in Pixels(im.w, im.h) |->
                IF im.px[p][4] = 0 THEN White
                ELSE <<im.px[p][1], im.px[p][2], im.px[p][3], 255>>]]

\* A decoded image of another mode carries its own pixel form: <<v>> in
\* mode L, <<v, a>> in LA, <<index>> in P, with the palette (one <<r, g, b>>
\* per index) and info['transparency'] (<<>> or <<index>>) of a P image.

\* the mode after lines 424-429 with the `elif img.mode in ('LA',)` arm left out
NormalizedModeWithoutLA(im) ==
    IF im.mode = "P" /\ im.transparency # NoneValue THEN "RGBA"
    ELSE IF im.mode \notin {"RGB", "RGBA"} THEN "RGB"
    ELSE im.mode

\* lines 424-429: the mode the image is converted to
NormalizedMode(im) ==
    IF im.mode = "P" /\ im.transparency # NoneValue THEN "RGBA"
    ELSE IF im.mode \in {"LA"} THEN "RGBA"
    ELSE IF im.mode \notin {"RGB", "RGBA"} THEN "RGB"
    ELSE im.mode

\* img.convert(to) of one pixel, to in {"RGB", "RGBA"}
ConvertPixel(im, p, to) ==
    IF im.mode = "L" THEN <<im.px[p][1], im.px[p][1], im.px[p][1], 255>>
    ELSE IF im.mode = "LA"
         THEN <<im.px[p][1], im.px[p][1], im.px[p][1],
                IF to = "RGBA" THEN im.px[p][2] ELSE 255>>
    ELSE \* mode P
         <<im.palette[im.px[p][1] + 1][1], im.palette[im.px[p][1] + 1][2],
           im.palette[im.px[p][1] + 1][3],
           IF to = "RGBA" /\ im.transparency = Some(im.px[p][1]) THEN 0 ELSE 255>>

Convert(im, to) ==
    [mode |-> to, w |-> im.w, h |-> im.h,
     px |-> [p \in Pixels(im.w, im.h) |-> ConvertPixel(im, p, to)]]

\* lines 424-429: RGB and RGBA images are not converted
Normalized(im) ==
    IF im.mode \in {"RGB", "RGBA"} THEN im ELSE Convert(im, NormalizedMode(im))

\* lines 433-436
Flattened(im) ==
    IF flatten_png_first /\ im.mode = "RGBA" THEN FlattenOnWhite(im) ELSE im

\* an opening that keeps the image of the first call on the processor
OpenedOnceAndKept(im) == IF file_i = 0 THEN Flattened(Normalized(im)) ELSE img

\* lines 423-436: the image process_image works on
Opened(im) == Flattened(Normalized(im))

\* change_background(processed_img).  The canvas carries no pixels in this
\* model; it is RGB and exists only if background_color parsed, so the call
\* cannot raise on it.
RecolorStageOutcomes(im) ==
    IF "px" \in DOMAIN im THEN ChangeBackgroundOutcomes(im)
    ELSE IF ~HexValid(background_color) THEN {[raised |-> TRUE, image |-> im]}
    ELSE {[raised |-> FALSE, image |-> im]}

\* the save calls of lines 476-494 raise OSError for an RGBA image in JPEG
SaveRaises(im) == output_format = "jpeg" /\ im.mode = "RGBA"

\* results after a file for which process_image returned False was dropped
ResultsAfterForgetsError(res, f, ok) ==
    IF ok THEN [res EXCEPT !.processed = @ + 1] ELSE res

\* lines 529-532
ResultsAfter(res, f, ok) ==
    IF ok THEN [res EXCEPT !.processed = @ + 1]
    ELSE [res EXCEPT !.errors = Append(@, f)]

MaxFiles == 2    \* input_dir holds at most this many files

PipeRGB == SceneImage(<<"RGB", White, Black>>, 2, 1, {<<0, 0>>})
PipeRGBA == SceneImage(<<"RGBA", Clear, Red>>, 2, 1, {<<0, 0>>})

\* what a file may hold: nothing decodable, or an image
FileContents(f) ==
    IF f[3] \in ImageExtensions THEN {NoneValue, Some(PipeRGB), Some(PipeRGBA)}
    ELSE {NoneValue}

InputDirs ==
    UNION { {d \in [P -> {NoneValue, Some(PipeRGB), Some(PipeRGBA)}] :
                \A f \in P : d[f] \in FileContents(f)} :
            P \in {Q \in SUBSET Range(PathOrder) : Cardinality(Q) <= MaxFiles} }

InitBatch ==
    /\ pc = "batch"
    /\ input_files \in InputDirs
    /\ output_format \in Formats
    /\ background_color \in {"#F3F3F3", "#GGGGGG"}
    /\ recolor_background \in BOOLEAN
    /\ flatten_png_first \in BOOLEAN
    /\ image_files = <<>> /\ file_i = 0
    /\ results = [total |-> 0, processed |-> 0, errors |-> <<>>]
    /\ outputs = <<>>
    /\ img = NoImage
    /\ white_threshold = 240 /\ black_threshold = 15 /\ background_edge_mode = "auto"
    /\ target_width = 10 /\ target_height = 10
    /\ alpha_threshold = 5 /\ product_size_ratio = <<3, 4>>
    /\ min_margin_ratio = <<1, 10>> /\ center_mode = "bbox"
    /\ png_edge_fix = TRUE /\ png_matte = "#FFFFFF"
    /\ placed = <<>> /\ result = <<>>
    /\ returned = <<>>
    /\ quality = 0 /\ min_quality = 0
    /\ target_max_kb = <<>> /\ quality_try = 0 /\ loop_i = 0
    /\ best_bytes = <<>> /\ encodes = <<>> /\ written = <<>>
    /\ StageIdle
    /\ MaskIdle
    /\ ApiIdle /\ DevIdle

\* lines 511-519: list the files; with none, return the zero summary at once
GetImageFiles ==
    /\ pc = "batch"
    /\ image_files' = GetImageFilesOf(input_files)
    /\ IF image_files' = <<>>
       THEN /\ results' = [total |-> 0, processed |-> 0, errors |-> <<>>]
            /\ pc' = "batch_done"
       ELSE /\ results' = [total |-> Len(image_files'), processed |-> 0, errors |-> <<>>]
            /\ pc' = "next"
    /\ UNCHANGED <<encVars, imgVars, background_mask, cfgVars, placed, result>>
    /\ UNCHANGED <<returned, stageVars, recolor_background, flatten_png_first,
                   input_files, file_i, outputs>>
    /\ UNCHANGED <<apiVars, devVars>>

\* the file the loop of line 527 is at
image_path == image_files[file_i + 1]

\* lines 409-436: process_image up to the first stage; Image.open raises on a
\* file it cannot decode, and the handler of line 496 returns False
OpenImage ==
    /\ pc = "next"
    /\ file_i < Len(image_files)
    /\ placed' = NoneValue /\ result' = NoneValue /\ recolored' = NoneValue
    /\ IF input_files[image_path] = NoneValue
       THEN /\ returned' = Some(FALSE)
            /\ img' = NoImage
            /\ pc' = "record"
       ELSE /\ returned' = NoneValue
            /\ img' = Opened(Get(input_files[image_path]))
            /\ pc' = "compose"
    /\ UNCHANGED <<encVars, white_threshold, black_threshold, background_edge_mode,
                   background_mask, cfgVars, unmatted, batchVars>>
    /\ UNCHANGED <<apiVars, devVars>>

\* lines 441-442: change_background when recolor_background is set
RecolorStage ==
    /\ pc = "composed"
    /\ file_i < Len(image_files)
    /\ recolor_background
    /\ \E out \in RecolorStageOutcomes(Get(result)) : recolored' = Some(out)
    /\ pc' = "stage_recolored"
    /\ UNCHANGED <<encVars, imgVars, background_mask, cfgVars, placed, result>>
    /\ UNCHANGED <<returned, unmatted, batchVars>>
    /\ UNCHANGED <<apiVars, devVars>>

\* processed_img at the save of lines 444-494
processed_img == IF recolored # NoneValue THEN Get(recolored).image ELSE Get(result)

\* lines 444-498: save, return True; an exception of the save returns False
SaveImage ==
    /\ \/ pc = "composed" /\ file_i < Len(image_files) /\ ~recolor_background
       \/ pc = "stage_recolored"
    /\ IF SaveRaises(processed_img)
       THEN /\ returned' = Some(FALSE)
            /\ outputs' = outputs
       ELSE /\ returned' = Some(TRUE)
            /\ outputs' = Append(outputs, [path |-> OutputPath(image_path),
                                           source |-> image_path])
    /\ pc' = "record"
    /\ UNCHANGED <<encVars, imgVars, background_mask, cfgVars, placed, result>>
    /\ UNCHANGED <<stageVars, recolor_background, flatten_png_first, input_files,
                   image_files, file_i, results>>
    /\ UNCHANGED <<apiVars, devVars>>

\* lines 529-532: count the file or list it as an error, then the next file
RecordResult ==
    /\ pc = "record"
    /\ results' = ResultsAfter(results, image_path, Get(returned))
    /\ file_i' = file_i + 1
    /\ pc' = "next"
    /\ UNCHANGED <<encVars, imgVars, background_mask, cfgVars, placed, result>>
    /\ UNCHANGED <<returned, stageVars, recolor_background, flatten_png_first,
                   input_files, image_files, outputs>>
    /\ UNCHANGED <<apiVars, devVars>>

\* line 535
ReturnResults ==
    /\ pc = "next"
    /\ file_i = Len(image_files)
    /\ pc' = "batch_done"
    /\ UNCHANGED <<encVars, imgVars, background_mask, cfgVars, placed, result>>
    /\ UNCHANGED <<returned, stageVars, batchVars>>
    /\ UNCHANGED <<apiVars, devVars>>

NextBatch ==
    \/ GetImageFiles
    \/ OpenImage
    \/ SmartResizeAndCenter
    \/ RecolorStage
    \/ SaveImage
    \/ RecordResult
    \/ ReturnResults

SpecBatch == InitBatch /\ [][NextBatch]_vars
(***************************************************************************)
(* The return value of process_image after the adaptive loop, under        *)
(* SpecEnc.                                                                *)
(***************************************************************************)
C20_Missed == InLoopRun /\ Finished /\ C7_NeverMet

\* C20: when the adaptive encoder ends its retries with no attempt within
\* the size target, the last (lowest-quality) result is still written, the
\* run is not a failure, and the caller receives a flag that tells this run
\* from one that met the target: process_image returns True for a run that
\* met it (line 495), so what it returns here is neither False nor True.
C20_MissedBudgetIsFlagged ==
    C20_Missed =>
        /\ written # NoneValue
        /\ Get(written).n = Len(encodes)
        /\ returned # NoneValue
        /\ Get(returned) # FALSE
        /\ Get(returned) # TRUE

(***************************************************************************)
(* Claims about process_all_images and process_image, under SpecBatch.     *)
(***************************************************************************)
BatchDone == pc = "batch_done"

\* the file has an output written from it
Written(f) == \E k \in DOMAIN outputs : outputs[k].source = f

C16_Failed(f) == ~Written(f)

\* C16: process_all_images attempts every image file found, whatever failed
\* before it; on return total = processed + len(errors), and errors holds
\* exactly one entry for each image whose processing failed.
C16_AttemptsAllAndAccounts ==
    BatchDone =>
        /\ image_files = GetImageFilesOf(input_files)
        /\ file_i = Len(image_files)
        /\ results.total = Len(image_files)
        /\ results.total = results.processed + Len(results.errors)
        /\ results.errors = SelectSeq(image_files, C16_Failed)
        /\ results.processed = Cardinality({f \in Range(image_files) : Written(f)})

C16_Witness ==
    /\ BatchDone
    /\ Len(image_files) = 2
    /\ results.errors = <<image_files[1]>>
    /\ Written(image_files[2])

\* C17: two distinct input image files are written to two distinct output
\* paths, so no output overwrites another one within a batch.
C17_DistinctOutputPaths ==
    \A j, k \in DOMAIN outputs :
        outputs[j].source # outputs[k].source => outputs[j].path # outputs[k].path

C18_CompositorRaised == placed # NoneValue /\ Get(placed).branch = "error"

C18_RecolorRaised == recolored # NoneValue /\ Get(recolored).raised

\* C18: when the compositor stage or the recolor stage raises, the stage
\* returns its input image unmodified, process_image has not returned at
\* that point, and the next stage runs on the returned image: the recolor
\* stage on the compositor's return, the save on the last stage's return.
C18_StageErrorReturnsInput ==
    /\ C18_CompositorRaised =>
          /\ Get(result) = img
          /\ pc = "composed" => returned = NoneValue
    /\ C18_RecolorRaised =>
          /\ Get(recolored).image = Get(result)
          /\ pc = "stage_recolored" => returned = NoneValue
    /\ recolored # NoneValue => Get(recolored) \in RecolorStageOutcomes(Get(result))
    /\ (pc = "record" /\ placed # NoneValue) =>
          /\ Get(returned) = ~SaveRaises(processed_img)
          /\ Get(returned) => outputs[Len(outputs)].source = image_path

C18_Witness ==
    /\ C18_CompositorRaised
    /\ C18_RecolorRaised
    /\ pc = "record"
    /\ returned = Some(TRUE)

\* C19: process_image returns False only when the source image cannot be
\* read or decoded.
C19_FalseOnlyWhenUndecodable ==
    (pc = "record" /\ returned = Some(FALSE)) => input_files[image_path] = NoneValue

(***************************************************************************)
(* SpecOpen: the opening of process_image (lines 409-436) on one file      *)
(* holding a small image of mode L, LA, P, RGB or RGBA, or nothing         *)
(* decodable.                                                              *)
(***************************************************************************)
MaxOpenLen == 2    \* decoded images are 1 x n with n in 1..MaxOpenLen

OpenPalette == << <<255, 255, 255>>, <<200, 30, 30>> >>

\* <<mode, pixel values, info['transparency']>>
OpenKinds ==
    { <<"L", {<<0>>, <<255>>}, NoneValue>>,
      <<"LA", {<<0, 255>>, <<255, 0>>}, NoneValue>>,
      <<"P", {<<0>>, <<1>>}, NoneValue>>,
      <<"P", {<<0>>, <<1>>}, Some(0)>>,
      <<"RGB", {White, Red}, NoneValue>>,
      <<"RGBA", {Clear, Red}, NoneValue>> }

OpenImages ==
    UNION { UNION { { IF k[1] \in {"RGB", "RGBA"}
                      THEN [mode |-> k[1], w |-> n, h |-> 1, px |-> px]
                      ELSE [mode |-> k[1], w |-> n, h |-> 1, px |-> px,
                            palette |-> OpenPalette, transparency |-> k[3]] :
                      px \in [Pixels(n, 1) -> k[2]] } :
                    n \in 1..MaxOpenLen } :
            k \in OpenKinds }

InitOpen ==
    /\ pc = "next"
    /\ \E c \in {NoneValue} \cup {Some(im) : im \in OpenImages} :
          input_files = [f \in {PathOrder[1]} |-> c]
    /\ image_files = <<PathOrder[1]>> /\ file_i = 0
    /\ results = [total |-> 1, processed |-> 0, errors |-> <<>>]
    /\ outputs = <<>>
    /\ flatten_png_first \in BOOLEAN
    /\ recolor_background \in BOOLEAN
    /\ output_format \in Formats
    /\ background_color = "#F3F3F3"
    /\ img = NoImage
    /\ white_threshold = 240 /\ black_threshold = 15 /\ background_edge_mode = "auto"
    /\ target_width = 10 /\ target_height = 10
    /\ alpha_threshold = 5 /\ product_size_ratio = <<3, 4>>
    /\ min_margin_ratio = <<1, 10>> /\ center_mode = "bbox"
    /\ png_edge_fix = TRUE /\ png_matte = "#FFFFFF"
    /\ placed = <<>> /\ result = <<>>
    /\ returned = <<>>
    /\ quality = 0 /\ min_quality = 0
    /\ target_max_kb = <<>> /\ quality_try = 0 /\ loop_i = 0
    /\ best_bytes = <<>> /\ encodes = <<>> /\ written = <<>>
    /\ StageIdle
    /\ MaskIdle
    /\ ApiIdle /\ DevIdle

NextOpen == OpenImage

SpecOpen == InitOpen /\ [][NextOpen]_vars

\* the image Image.open returned, and the one handed to smart_resize_and_center
C21_Case == pc = "compose" /\ input_files[image_path] # NoneValue

C21_Decoded == Get(input_files[image_path])

C21_ModeAsClaimed ==
    /\ img.w = C21_Decoded.w /\ img.h = C21_Decoded.h
    /\ (C21_Decoded.mode = "P" /\ C21_Decoded.transparency # NoneValue)
          => img.mode = "RGBA"
    /\ C21_Decoded.mode = "LA" => img.mode = "RGBA"
    /\ C21_Decoded.mode \in {"RGB", "RGBA"} => img = C21_Decoded
    /\ (C21_Decoded.mode = "P" /\ C21_Decoded.transparency = NoneValue)
          => img.mode = "RGB"
    /\ C21_Decoded.mode = "L" => img.mode = "RGB"

\* C21 as stated: the image that enters the pipeline is RGB or RGBA; palette
\* images with transparency and LA images have become RGBA, RGB and RGBA
\* images are kept as they are, every other mode has become RGB.
C21_Original ==
    C21_Case => (img.mode \in {"RGB", "RGBA"} /\ C21_ModeAsClaimed)

\* C21, amended: the image that enters the pipeline is RGB or RGBA.  With
\* flatten_png_first off it is as the claim says.  With flatten_png_first
\* on, every image that the conversion left in RGBA is composited on white
\* and enters as RGB, and RGB images are kept as they are.
C21_NormalizedThenFlattened ==
    C21_Case =>
        /\ img.mode \in {"RGB", "RGBA"}
        /\ ~flatten_png_first => C21_ModeAsClaimed
        /\ flatten_png_first =>
              /\ img.mode = "RGB"
              /\ img.w = C21_Decoded.w /\ img.h = C21_Decoded.h
              /\ C21_Decoded.mode = "RGB" => img = C21_Decoded

C21_Witness ==
    /\ C21_Case
    /\ ~flatten_png_first
    /\ C21_Decoded.mode = "LA"
    /\ img.mode = "RGBA"
    /\ \E p \in Pixels(img.w, img.h) : img.px[p][4] = 0

(***************************************************************************)
(* The configuration during a batch, under SpecBatch.                      *)
(***************************************************************************)
\* the attributes __init__ sets from config (lines 20-50), as far as modelled
ConfigAttributes ==
    <<target_width, target_height, quality, min_quality, target_max_kb,
      output_format, background_color, flatten_png_first, white_threshold,
      black_threshold, product_size_ratio, alpha_threshold, recolor_background,
      center_mode, min_margin_ratio, png_edge_fix, png_matte, background_edge_mode>>

C22_InCall == pc \in {"compose", "composed", "stage_recolored", "record"}

\* what the call at hand computed depends on its file and the configuration
C22_FromThisFileOnly ==
    (C22_InCall /\ input_files[image_path] # NoneValue) =>
        /\ img = Flattened(Normalized(Get(input_files[image_path])))
        /\ placed # NoneValue => Get(placed) \in SmartResizeOutcomes(img)
        /\ recolored # NoneValue =>
              Get(recolored) \in RecolorStageOutcomes(
                  IF Get(placed).branch = "error" THEN img ELSE Canvas)
        /\ (returned # NoneValue /\ Get(returned)) =>
              outputs[Len(outputs)] = [path |-> OutputPath(image_path),
                                       source |-> image_path]

\* C22: no step of a batch (listing, opening, mask, bbox, unmatte and
\* compositing, recolor, save, accounting) changes a configuration attribute,
\* and what process_image computes for a file is determined by that file and
\* the configuration, not by the files processed before it.
C22_ConfigReadOnlyImagesIndependent ==
    /\ [][ConfigAttributes' = ConfigAttributes]_vars
    /\ []C22_FromThisFileOnly

\* the second file of a batch, of another mode than the first, has been saved
C22_Witness ==
    /\ pc = "record" /\ file_i = 1
    /\ returned = Some(TRUE)
    /\ input_files[image_files[1]] # NoneValue
    /\ input_files[image_files[1]] # input_files[image_files[2]]
    /\ placed # NoneValue /\ Get(placed).branch = "bbox"

(***************************************************************************)
(* SpecApi: the routes /api/process-single and /api/process-base64 of      *)
(* api_server.py, each serving one request.  A file name is <<stem,        *)
(* suffix>>, the suffix with its dot, "" when the name has no dot; a file  *)
(* is [dir, path].  The call of process_image runs the stages of           *)
(* SpecBatch on the one file the route saved.                              *)
(***************************************************************************)
ALLOWED_EXTENSIONS == {".png", ".jpg", ".jpeg", ".bmp", ".tiff", ".webp"}

\* str.lower() on the suffixes used here
LowerSuffix(x) == IF x = ".PNG" THEN ".png" ELSE x

\* allowed_file, lines 63-64
allowed_file(filename) ==
    filename[2] # "" /\ LowerSuffix(filename[2]) \in ALLOWED_EXTENSIONS

\* werkzeug's secure_filename on the names used here: a space becomes "_"
secure_filename(filename) ==
    IF filename[1] = "my photo" THEN <<"my_photo", filename[2]>> ELSE filename

\* a file exists in the request's temporary directory: the saved input, or an
\* output when the processor writes there
ExistsInTemp(path) ==
    \/ path = image_files[1]
    \/ output_dir = "temp_dir" /\ \E k \in DOMAIN outputs : outputs[k].path = path

\* line 166-167: processed_<stem>.webp in temp_dir
SingleOutputPath(filename) == <<"", "processed_" \o filename[1], ".webp">>

\* line 353: output.jpg in temp_dir
Base64OutputPath == <<"", "output", ".jpg">>

Reply(status, body) == [status |-> status, body |-> body]

SendFile(path) == [status |-> 200, file |-> [dir |-> "temp_dir", path |-> path]]

ApiNames ==
    { <<"", "">>, <<"a", ".jpg">>, <<"a", ".PNG">>, <<"a", ".txt">>, <<"a", "">>,
      <<"my photo", ".webp">> }

InitApi ==
    /\ pc = "request"
    /\ endpoint \in {"single", "base64"}
    /\ upload \in {NoneValue} \cup
          { Some([filename |-> n, content |-> c]) :
              n \in IF endpoint = "single" THEN ApiNames ELSE {<<"input", ".jpg">>},
              c \in {NoneValue, Some(PipeRGB), Some(PipeRGBA)} }
    /\ response = NoneValue
    /\ input_dir = "input_images" /\ output_dir = "processed_images"
    /\ input_files = <<>> /\ image_files = <<>> /\ file_i = 0
    /\ results = [total |-> 0, processed |-> 0, errors |-> <<>>]
    /\ outputs = <<>>
    /\ output_format \in Formats
    /\ background_color \in {"#F3F3F3", "#GGGGGG"}
    /\ recolor_background \in BOOLEAN
    /\ flatten_png_first = FALSE
    /\ img = NoImage
    /\ white_threshold = 220 /\ black_threshold = 15 /\ background_edge_mode = "auto"
    /\ target_width = 10 /\ target_height = 10
    /\ alpha_threshold = 5 /\ product_size_ratio = <<3, 4>>
    /\ min_margin_ratio = <<1, 10>> /\ center_mode = "bbox"
    /\ png_edge_fix = TRUE /\ png_matte = "#FFFFFF"
    /\ placed = <<>> /\ result = <<>>
    /\ returned = <<>>
    /\ quality = 0 /\ min_quality = 0
    /\ target_max_kb = <<>> /\ quality_try = 0 /\ loop_i = 0
    /\ best_bytes = <<>> /\ encodes = <<>> /\ written = <<>>
    /\ StageIdle
    /\ MaskIdle
    /\ DevIdle

ApiFrame ==
    /\ UNCHANGED <<encVars, imgVars, background_mask, cfgVars, placed, result>>
    /\ UNCHANGED <<returned, stageVars, recolor_background, flatten_png_first,
                   file_i, results, outputs, endpoint, upload, devVars>>

\* lines 118-180: the checks of the request, the save of the upload into
\* temp_dir, and the processor built with input_dir = output_dir = temp_dir
process_single_image ==
    /\ pc = "request"
    /\ endpoint = "single"
    /\ IF upload = NoneValue
       THEN /\ response' = Some(Reply(400, "No image file provided"))
            /\ pc' = "responded"
            /\ UNCHANGED <<input_files, image_files, input_dir, output_dir>>
       ELSE IF Get(upload).filename = <<"", "">>
       THEN /\ response' = Some(Reply(400, "No file selected"))
            /\ pc' = "responded"
            /\ UNCHANGED <<input_files, image_files, input_dir, output_dir>>
       ELSE IF ~allowed_file(Get(upload).filename)
       THEN /\ response' = Some(Reply(400, "Invalid file type"))
            /\ pc' = "responded"
            /\ UNCHANGED <<input_files, image_files, input_dir, output_dir>>
       ELSE /\ image_files' =
                  << <<"", secure_filename(Get(upload).filename)[1],
                       secure_filename(Get(upload).filename)[2]>> >>
            /\ input_files' = [f \in {image_files'[1]} |-> Get(upload).content]
            /\ input_dir' = "temp_dir" /\ output_dir' = "temp_dir"
            /\ response' = response
            /\ pc' = "next"
    /\ ApiFrame

\* lines 185-207: after process_image returned
process_single_image_reply ==
    /\ pc = "record"
    /\ endpoint = "single"
    /\ response' =
          IF ~ExistsInTemp(SingleOutputPath(secure_filename(Get(upload).filename)))
          THEN Some(Reply(500, "Output file not found"))
          ELSE IF ~Get(returned) THEN Some(Reply(500, "Failed to process image"))
          ELSE Some(SendFile(SingleOutputPath(secure_filename(Get(upload).filename))))
    /\ pc' = "responded"
    /\ UNCHANGED <<input_files, image_files, input_dir, output_dir>>
    /\ ApiFrame

\* lines 334-357: the request check, the write of temp_dir/input.jpg, and the
\* processor built from get_processor_config, which sets no directory
process_base64_image ==
    /\ pc = "request"
    /\ endpoint = "base64"
    /\ IF upload = NoneValue
       THEN /\ response' = Some(Reply(400, "No base64 image provided"))
            /\ pc' = "responded"
            /\ UNCHANGED <<input_files, image_files>>
       ELSE /\ image_files' = << <<"", "input", ".jpg">> >>
            /\ input_files' = [f \in {image_files'[1]} |-> Get(upload).content]
            /\ response' = response
            /\ pc' = "next"
    /\ UNCHANGED <<input_dir, output_dir>>
    /\ ApiFrame

\* lines 359-377: open(output_path) raises FileNotFoundError for a missing
\* file, which the handler of line 376 turns into a 500
process_base64_image_reply ==
    /\ pc = "record"
    /\ endpoint = "base64"
    /\ response' =
          IF ~Get(returned) THEN Some(Reply(500, "Failed to process image"))
          ELSE IF ~ExistsInTemp(Base64OutputPath)
          THEN Some(Reply(500, "No such file or directory"))
          ELSE Some(SendFile(Base64OutputPath))
    /\ pc' = "responded"
    /\ UNCHANGED <<input_files, image_files, input_dir, output_dir>>
    /\ ApiFrame

NextApi ==
    \/ process_single_image
    \/ process_single_image_reply
    \/ process_base64_image
    \/ process_base64_image_reply
    \/ OpenImage
    \/ SmartResizeAndCenter
    \/ RecolorStage
    \/ SaveImage

SpecApi == InitApi /\ [][NextApi]_vars

Responded == pc = "responded"

\* the file process_image wrote for the request
C23_WrittenFile == [dir |-> output_dir, path |-> outputs[Len(outputs)].path]

\* C23: for an upload with an allowed extension whose processing succeeds,
\* /api/process-single responds with the processed image: the path it reads
\* the result from is the path the processor wrote it to.
C23_SingleRespondsWithProcessedFile ==
    (Responded /\ endpoint = "single" /\ returned = Some(TRUE)) =>
        /\ Get(response).status = 200
        /\ Get(response).file = C23_WrittenFile

\* C24: for a valid base64 image whose processing succeeds,
\* /api/process-base64 responds with success and the processed image: the
\* file it reads back, output.jpg in the temporary directory, is the file
\* the processor wrote for the request.
C24_Base64RespondsWithProcessedFile ==
    (Responded /\ endpoint = "base64" /\ returned = Some(TRUE)) =>
        /\ Get(response).status = 200
        /\ Get(response).file = [dir |-> output_dir, path |-> outputs[Len(outputs)].path]
        /\ Get(response).file.path = Base64OutputPath

(***************************************************************************)
(* dev_server.py.  DevServer.run executes on the main thread, and so does  *)
(* signal_handler, which Python runs between two bytecodes of that thread  *)
(* and which never returns to the interrupted code; the observer's thread  *)
(* runs RestartHandler.on_modified, that is restart_server, one event at a *)
(* time.  A step is one statement; each statement of stop_server reads     *)
(* self.process anew.  A child is a number, in the order of the Popen      *)
(* calls.  SIGINT is delivered to DevServer alone, once.  The observer's   *)
(* thread is a daemon thread: it does not outlive the main thread.         *)
(***************************************************************************)
MaxEvents == 2    \* file changes that pass the debounce of on_modified

Threads == {"main", "watch"}

at(t) == IF t = "main" THEN main_pc ELSE watch_pc

Ended(l) == l \in {"exited", "crashed"}

\* the thread can take a step: it has not ended, nor has the interpreter
Alive(t) == ~Ended(main_pc) /\ ~Ended(at(t))

goto(t, l) ==
    IF t = "main" THEN main_pc' = l /\ UNCHANGED watch_pc
    ELSE watch_pc' = l /\ UNCHANGED main_pc

InitDev ==
    /\ pc = "dev"
    /\ process = NoneValue
    /\ live = {} /\ signalled = {} /\ spawned = 0
    /\ popened = [t \in Threads |-> NoneValue]
    /\ running = TRUE
    /\ observer = "none"
    /\ main_pc = "start_server"
    /\ watch_pc = "idle"
    /\ stop_ret = [t \in Threads |-> ""]
    /\ events = 0
    /\ returned = NoneValue
    /\ EncIdle
    /\ ImgIdle
    /\ MaskIdle
    /\ CompIdle
    /\ StageIdle
    /\ BatchIdle
    /\ ApiIdle

DevFrame ==
    UNCHANGED <<pc, encVars, imgVars, background_mask, cfgVars, placed, result,
                returned, stageVars, batchVars, apiVars>>

\* start_server, lines 44-45: `if self.process: self.stop_server()`
start_server(t) ==
    /\ Alive(t) /\ at(t) = "start_server"
    /\ IF process # NoneValue
       THEN goto(t, "stop_server") /\ stop_ret' = [stop_ret EXCEPT ![t] = "Popen"]
       ELSE goto(t, "Popen") /\ UNCHANGED stop_ret
    /\ UNCHANGED <<process, live, signalled, spawned, popened, running, observer, events>>
    /\ DevFrame

\* lines 51-53, the call: subprocess.Popen([...]) starts a child
Popen(t) ==
    /\ Alive(t) /\ at(t) = "Popen"
    /\ spawned' = spawned + 1
    /\ live' = live \cup {spawned + 1}
    /\ popened' = [popened EXCEPT ![t] = Some(spawned + 1)]
    /\ goto(t, "store_process")
    /\ UNCHANGED <<process, signalled, running, observer, stop_ret, events>>
    /\ DevFrame

\* lines 51-53, the assignment: self.process = <what Popen returned>;
\* start_server returns to run (line 103) or ends restart_server
store_process(t) ==
    /\ Alive(t) /\ at(t) = "store_process"
    /\ process' = popened[t]
    /\ popened' = [popened EXCEPT ![t] = NoneValue]
    /\ goto(t, IF t = "main" THEN "start_watcher" ELSE "idle")
    /\ UNCHANGED <<live, signalled, spawned, running, observer, stop_ret, events>>
    /\ DevFrame

\* stop_server, line 57: `if self.process:`
stop_server(t) ==
    /\ Alive(t) /\ at(t) = "stop_server"
    /\ goto(t, IF process # NoneValue THEN "terminate" ELSE stop_ret[t])
    /\ UNCHANGED <<process, live, signalled, spawned, popened, running, observer>>
    /\ UNCHANGED <<stop_ret, events>>
    /\ DevFrame

\* line 59: self.process.terminate(); AttributeError if self.process is None
terminate(t) ==
    /\ Alive(t) /\ at(t) = "terminate"
    /\ IF process = NoneValue
       THEN goto(t, "crashed") /\ UNCHANGED signalled
       ELSE goto(t, "wait") /\ signalled' = signalled \cup {Get(process)}
    /\ UNCHANGED <<process, live, spawned, popened, running, observer, stop_ret, events>>
    /\ DevFrame

\* lines 60-62: self.process.wait(timeout=5) returns once the child has
\* exited, and raises TimeoutExpired while it has not
wait(t) ==
    /\ Alive(t) /\ at(t) = "wait"
    /\ goto(t, IF process = NoneValue THEN "crashed"
               ELSE IF Get(process) \in live THEN "kill" ELSE "clear_process")
    /\ UNCHANGED <<process, live, signalled, spawned, popened, running, observer>>
    /\ UNCHANGED <<stop_ret, events>>
    /\ DevFrame

\* line 63: self.process.kill()
kill(t) ==
    /\ Alive(t) /\ at(t) = "kill"
    /\ IF process = NoneValue
       THEN goto(t, "crashed") /\ UNCHANGED live
       ELSE goto(t, "clear_process") /\ live' = live \ {Get(process)}
    /\ UNCHANGED <<process, signalled, spawned, popened, running, observer, stop_ret, events>>
    /\ DevFrame

\* line 64: self.process = None, and stop_server returns
clear_process(t) ==
    /\ Alive(t) /\ at(t) = "clear_process"
    /\ process' = NoneValue
    /\ goto(t, stop_ret[t])
    /\ UNCHANGED <<live, signalled, spawned, popened, running, observer, stop_ret, events>>
    /\ DevFrame

\* a child that was sent SIGTERM exits
ChildExits ==
    /\ \E c \in live \cap signalled : live' = live \ {c}
    /\ UNCHANGED <<process, signalled, spawned, popened, running, observer>>
    /\ UNCHANGED <<main_pc, watch_pc, stop_ret, events>>
    /\ DevFrame

\* start_watcher, lines 75-78; run goes on to its loop `while self.running`
start_watcher ==
    /\ Alive("main") /\ main_pc = "start_watcher"
    /\ observer' = "started"
    /\ main_pc' = "loop"
    /\ UNCHANGED <<process, live, signalled, spawned, popened, running>>
    /\ UNCHANGED <<watch_pc, stop_ret, events>>
    /\ DevFrame

\* on_modified, lines 19-34, for a change that is not filtered out: the
\* observer's thread calls restart_server, which calls stop_server (line 69)
on_modified ==
    /\ Alive("watch") /\ watch_pc = "idle"
    /\ observer = "started"
    /\ events < MaxEvents
    /\ events' = events + 1
    /\ watch_pc' = "stop_server"
    /\ stop_ret' = [stop_ret EXCEPT !["watch"] = "sleep"]
    /\ UNCHANGED <<process, live, signalled, spawned, popened, running, observer, main_pc>>
    /\ DevFrame

\* restart_server, lines 70-71: time.sleep(1), then self.start_server()
sleep ==
    /\ Alive("watch") /\ watch_pc = "sleep"
    /\ watch_pc' = "start_server"
    /\ UNCHANGED <<process, live, signalled, spawned, popened, running, observer>>
    /\ UNCHANGED <<main_pc, stop_ret, events>>
    /\ DevFrame

\* SIGINT arrives while run is at any of its statements; signal_handler,
\* lines 94-95: self.running = False, then the call of stop_server
signal_handler ==
    /\ main_pc \in {"start_server", "Popen", "store_process", "start_watcher", "loop"}
    /\ running' = FALSE
    /\ main_pc' = "stop_server"
    /\ stop_ret' = [stop_ret EXCEPT !["main"] = "stop_watcher"]
    /\ UNCHANGED <<process, live, signalled, spawned, popened, observer, watch_pc, events>>
    /\ DevFrame

\* stop_watcher, lines 82-83: `if self.observer: self.observer.stop()`
stop_watcher ==
    /\ Alive("main") /\ main_pc = "stop_watcher"
    /\ IF observer = "none"
       THEN main_pc' = "sys_exit" /\ UNCHANGED observer
       ELSE main_pc' = "join" /\ observer' = "stopping"
    /\ UNCHANGED <<process, live, signalled, spawned, popened, running>>
    /\ UNCHANGED <<watch_pc, stop_ret, events>>
    /\ DevFrame

\* line 84: self.observer.join() returns when the observer's thread has
\* ended, which it does after the handler it is running
join ==
    /\ Alive("main") /\ main_pc = "join"
    /\ watch_pc \in {"idle", "crashed"}
    /\ observer' = "stopped"
    /\ main_pc' = "sys_exit"
    /\ UNCHANGED <<process, live, signalled, spawned, popened, running>>
    /\ UNCHANGED <<watch_pc, stop_ret, events>>
    /\ DevFrame

\* line 97: sys.exit(0)
sys_exit ==
    /\ main_pc = "sys_exit"
    /\ main_pc' = "exited"
    /\ UNCHANGED <<process, live, signalled, spawned, popened, running, observer>>
    /\ UNCHANGED <<watch_pc, stop_ret, events>>
    /\ DevFrame

NextDev ==
    \/ \E t \in Threads : start_server(t)
    \/ \E t \in Threads : Popen(t)
    \/ \E t \in Threads : store_process(t)
    \/ \E t \in Threads : stop_server(t)
    \/ \E t \in Threads : terminate(t)
    \/ \E t \in Threads : wait(t)
    \/ \E t \in Threads : kill(t)
    \/ \E t \in Threads : clear_process(t)
    \/ ChildExits
    \/ start_watcher
    \/ on_modified
    \/ sleep
    \/ signal_handler
    \/ stop_watcher
    \/ join
    \/ sys_exit

SpecDev == InitDev /\ [][NextDev]_vars

ShutdownCompleted == main_pc = "exited"

\* C30: for every interleaving of a restart on the observer's thread (a
\* file change has passed on_modified) with the Ctrl+C shutdown on the main
\* thread, once the shutdown has completed no child process started by
\* DevServer is left running, and at no time does DevServer have more than
\* one live child process.
C30_NoChildLeftAtMostOneLive ==
    events >= 1 =>
        /\ ShutdownCompleted => live = {}
        /\ Cardinality(live) <= 1

====
